---------------------------- MODULE Spec2Model ----------------------------
(***************************************************************************)
(* Model of the interview-helper voice assistant: the VoiceUI component    *)
(* (transcript -> question pipeline and question registry), the            *)
(* TechnicalQuestionDetector, the AnswerDisplay component and the          *)
(* OpenAIService streaming client.                                         *)
(*                                                                         *)
(* A JavaScript string is a sequence of one-character strings, so that     *)
(* trimming, splitting, searching and the edit distance are computed as    *)
(* the code computes them.                                                 *)
(***************************************************************************)
EXTENDS Integers, Sequences, FiniteSets, TLC

(***************************************************************************)
(* The state.                                                              *)
(***************************************************************************)
VARIABLES
  \* VoiceUI component state (useState)
  isListening, transcript, interimTranscript, source, error,
  detectedQuestions, currentQuestionIndex, processedSegments, apiKey,
  \* the capture engine behind recognitionRef: "absent" (recognitionRef.current
  \* is null), "idle", "running", or "ending" (stopped or failed, its end
  \* event not yet fired)
  recognition,
  \* the component state the handlers bound in the mount effect closed over
  mountClosure,
  \* getDisplayMedia promises not yet settled, and mediaStreamRef.current # null
  pendingCaptures, mediaStream,
  \* Date.now()
  now,
  \* AnswerDisplay component state (useState), while it is mounted
  answerDisplay,
  \* the getAnswer calls made so far (OpenAIService.getAnswer)
  requests,
  \* the values of the pure functions on the texts of the model, computed once
  memo,
  \* the arguments given to a pure function observed on its own (similarity,
  \* the detector, the question extraction), and what its last call returned
  args, returned

vars == <<isListening, transcript, interimTranscript, source, error,
          detectedQuestions, currentQuestionIndex, processedSegments, apiKey,
          recognition, mountClosure, pendingCaptures, mediaStream, now,
          answerDisplay, requests, memo, args, returned>>

voiceVars == <<isListening, transcript, interimTranscript, source, error,
               detectedQuestions, currentQuestionIndex, processedSegments, apiKey,
               recognition, mountClosure, pendingCaptures, mediaStream>>


pureVars == <<args, returned>>

(***************************************************************************)
(* String primitives of the JavaScript runtime used by the code.           *)
(***************************************************************************)
\* Op applied to the value of v. A definition or a parameter stands for an
\* expression that is evaluated wherever it is used; here v is evaluated once.
WithValue(v, Op(_)) == CHOOSE r \in {Op(y) : y \in {v}} : TRUE

UpperChars == <<"A","B","C","D","E","F","G","H","I","J","K","L","M",
                "N","O","P","Q","R","S","T","U","V","W","X","Y","Z">>

LowerChars == <<"a","b","c","d","e","f","g","h","i","j","k","l","m",
                "n","o","p","q","r","s","t","u","v","w","x","y","z">>

DigitSeq == <<"0","1","2","3","4","5","6","7","8","9">>

DigitChars == {DigitSeq[i] : i \in 1..Len(DigitSeq)}

WhitespaceChars == {" ", "\n", "\r", "\t"}

UpperSet == {UpperChars[i] : i \in 1..Len(UpperChars)}

\* String.prototype.toLowerCase on one character.
lowerChar(c) ==
  IF c \in UpperSet
  THEN LowerChars[CHOOSE i \in 1..Len(UpperChars) : UpperChars[i] = c]
  ELSE c

\* String.prototype.toLowerCase
toLowerCase(str) == WithValue(str, LAMBDA s : [i \in 1..Len(s) |-> lowerChar(s[i])])

\* String.prototype.trim
trim(str) ==
  WithValue(str, LAMBDA s :
    IF \A i \in 1..Len(s) : s[i] \in WhitespaceChars
    THEN <<>>
    ELSE LET first == CHOOSE i \in 1..Len(s) :
                        /\ s[i] \notin WhitespaceChars
                        /\ \A j \in 1..(i-1) : s[j] \in WhitespaceChars
             last  == CHOOSE i \in 1..Len(s) :
                        /\ s[i] \notin WhitespaceChars
                        /\ \A j \in (i+1)..Len(s) : s[j] \in WhitespaceChars
         IN  SubSeq(s, first, last))

\* s.substring(i) with a 0-based index i
substring(s, i) == SubSeq(s, i + 1, Len(s))

\* whether t occurs in s at (1-based) position i
matchesAt(s, t, i) ==
  /\ i >= 1
  /\ i + Len(t) - 1 <= Len(s)
  /\ \A k \in 1..Len(t) : s[i + k - 1] = t[k]

\* String.prototype.startsWith
startsWith(s, t) == matchesAt(s, t, 1)

\* String.prototype.endsWith
endsWith(s, t) == matchesAt(s, t, Len(s) - Len(t) + 1)

\* String.prototype.includes
includes(s, t) == \E i \in 1..(Len(s) - Len(t) + 1) : matchesAt(s, t, i)

\* String.prototype.split on a set of one-character separators: the pieces
\* between separators, empty pieces included.
RECURSIVE split(_, _)
split(str, Sep) ==
  WithValue(str, LAMBDA s :
    IF \A i \in 1..Len(s) : s[i] \notin Sep
    THEN <<s>>
    ELSE LET idx == CHOOSE i \in 1..Len(s) :
                      /\ s[i] \in Sep
                      /\ \A j \in 1..(i-1) : s[j] \notin Sep
         IN  <<SubSeq(s, 1, idx - 1)>> \o split(SubSeq(s, idx + 1, Len(s)), Sep))

\* the concatenation of a sequence of strings
RECURSIVE concat(_)
concat(xs) == IF xs = <<>> THEN <<>> ELSE Head(xs) \o concat(Tail(xs))

Min2(x, y) == IF x <= y THEN x ELSE y

Max2(x, y) == IF x >= y THEN x ELSE y

(***************************************************************************)
(* VoiceUI: text similarity (levenshteinDistance, calculateSimilarity).    *)
(***************************************************************************)

\* matrix[i][j] for j = Len(cur), from the row above (prev = matrix[i-1]) and
\* the cells of the row filled so far (cur)
levCell(a, bc, prev, cur) ==
  LET j    == Len(cur)
      cost == IF a[j] = bc THEN 0 ELSE 1
  IN  Min2(Min2(prev[j + 1] + 1, cur[j] + 1), prev[j] + cost)

\* the inner loop: cur with its next count cells filled, left to right (the
\* cells are filled in two runs so that long rows nest as deep as short ones)
RECURSIVE levFillRow(_, _, _, _, _)
levFillRow(a, bc, prev, cur, count) ==
  IF count = 0 THEN cur
  ELSE IF count = 1 THEN Append(cur, levCell(a, bc, prev, cur))
  ELSE WithValue(levFillRow(a, bc, prev, cur, count \div 2),
                 LAMBDA half : levFillRow(a, bc, prev, half, count - count \div 2))

\* the outer loop: matrix with its next count rows filled, top to bottom
RECURSIVE levFillRows(_, _, _, _)
levFillRows(a, b, matrix, count) ==
  IF count = 0 THEN matrix
  ELSE IF count = 1
       THEN Append(matrix, levFillRow(a, b[Len(matrix)], matrix[Len(matrix)],
                                      <<Len(matrix)>>, Len(a)))
       ELSE WithValue(levFillRows(a, b, matrix, count \div 2),
                      LAMBDA half : levFillRows(a, b, half, count - count \div 2))

levenshteinDistance(a, b) ==
  WithValue(a, LAMBDA s : WithValue(b, LAMBDA t :
    levFillRows(s, t, << [j \in 1..(Len(s) + 1) |-> j - 1] >>, Len(t))
      [Len(t) + 1][Len(s) + 1]))

\* a variant of calculateSimilarity that compares the strings as they are
calculateSimilarityCaseSensitive(a, b) ==
  LET maxLength == Max2(Len(a), Len(b))
  IN  IF maxLength = 0 THEN [num |-> 1, den |-> 1]
      ELSE [num |-> maxLength - levenshteinDistance(a, b), den |-> maxLength]

\* a variant of calculateSimilarity that lowercases its first argument only
calculateSimilarityFirstLowered(a, b) ==
  LET maxLength == Max2(Len(a), Len(b))
  IN  IF maxLength = 0 THEN [num |-> 1, den |-> 1]
      ELSE [num |-> maxLength - levenshteinDistance(toLowerCase(a), b),
            den |-> maxLength]

\* calculateSimilarity(a, b) = 1 - distance / maxLength, a rational number
\* kept as the pair [num, den] = [maxLength - distance, maxLength]; both
\* strings empty gives 1.
calculateSimilarity(a, b) ==
  LET maxLength == Max2(Len(a), Len(b))
  IN  IF maxLength = 0 THEN [num |-> 1, den |-> 1]
      ELSE [num |-> maxLength - levenshteinDistance(toLowerCase(a), toLowerCase(b)),
            den |-> maxLength]

\* the 80% similarity threshold, in tenths
SimilarityThresholdTenths == 8

\* similarity > 0.8  (num/den > 8/10)
aboveThreshold(sim) == sim.num * 10 > SimilarityThresholdTenths * sim.den

(***************************************************************************)
(* TechnicalQuestionDetector.                                              *)
(***************************************************************************)

\* technicalKeywords: the domains in enumeration order (the order in which
\* Object.values / Object.entries visit them), each with its vocabulary.
technicalKeywords ==
  <<
    [domain |-> "programming", keywords |-> <<
        <<"f","u","n","c","t","i","o","n">>,
        <<"m","e","t","h","o","d">>,
        <<"c","l","a","s","s">>,
        <<"o","b","j","e","c","t">>,
        <<"v","a","r","i","a","b","l","e">>,
        <<"l","o","o","p">>,
        <<"a","r","r","a","y">>,
        <<"a","l","g","o","r","i","t","h","m">>,
        <<"r","u","n","t","i","m","e">>,
        <<"c","o","m","p","i","l","e">>,
        <<"d","e","b","u","g">>,
        <<"e","r","r","o","r">>,
        <<"e","x","c","e","p","t","i","o","n">>,
        <<"s","y","n","t","a","x">>,
        <<"j","a","v","a","s","c","r","i","p","t">>,
        <<"p","y","t","h","o","n">>,
        <<"j","a","v","a">>,
        <<"c","#">>,
        <<"t","y","p","e","s","c","r","i","p","t">>,
        <<"r","u","b","y">>,
        <<"r","u","s","t">>,
        <<"g","o">>,
        <<"p","h","p">>,
        <<"s","w","i","f","t">>,
        <<"k","o","t","l","i","n">>,
        <<"c","o","d","e">>,
        <<"c","o","m","p","i","l","e","r">>,
        <<"i","n","t","e","r","p","r","e","t","e","r">>,
        <<"r","e","c","u","r","s","i","o","n">>,
        <<"i","t","e","r","a","t","i","o","n">>,
        <<"i","n","h","e","r","i","t","a","n","c","e">>,
        <<"p","o","l","y","m","o","r","p","h","i","s","m">>,
        <<"e","n","c","a","p","s","u","l","a","t","i","o","n">>,
        <<"d","a","t","a"," ","s","t","r","u","c","t","u","r","e">>,
        <<"f","r","a","m","e","w","o","r","k">>,
        <<"l","i","b","r","a","r","y">>,
        <<"a","p","i">>,
        <<"s","d","k">>,
        <<"l","i","n","t">>,
        <<"i","m","p","o","r","t">> >>],
    [domain |-> "devops", keywords |-> <<
        <<"c","i","/","c","d">>,
        <<"p","i","p","e","l","i","n","e">>,
        <<"j","e","n","k","i","n","s">>,
        <<"d","o","c","k","e","r">>,
        <<"k","u","b","e","r","n","e","t","e","s">>,
        <<"c","o","n","t","a","i","n","e","r">>,
        <<"o","r","c","h","e","s","t","r","a","t","i","o","n">>,
        <<"d","e","p","l","o","y","m","e","n","t">>,
        <<"a","u","t","o","m","a","t","i","o","n">>,
        <<"i","n","f","r","a","s","t","r","u","c","t","u","r","e">>,
        <<"t","e","r","r","a","f","o","r","m">>,
        <<"a","n","s","i","b","l","e">>,
        <<"c","h","e","f">>,
        <<"p","u","p","p","e","t">>,
        <<"a","w","s">>,
        <<"a","z","u","r","e">>,
        <<"g","c","p">>,
        <<"c","l","o","u","d">>,
        <<"m","i","c","r","o","s","e","r","v","i","c","e">>,
        <<"s","e","r","v","e","r","l","e","s","s">>,
        <<"l","a","m","b","d","a">>,
        <<"f","u","n","c","t","i","o","n","-","a","s","-","a","-","s","e","r","v","i","c","e">>,
        <<"i","a","a","s">>,
        <<"p","a","a","s">>,
        <<"s","a","a","s">>,
        <<"d","e","v","o","p","s">>,
        <<"s","r","e">>,
        <<"g","i","t","l","a","b">>,
        <<"g","i","t","h","u","b"," ","a","c","t","i","o","n","s">>,
        <<"c","i","r","c","l","e"," ","c","i">> >>],
    [domain |-> "database", keywords |-> <<
        <<"d","a","t","a","b","a","s","e">>,
        <<"s","q","l">>,
        <<"n","o","s","q","l">>,
        <<"q","u","e","r","y">>,
        <<"i","n","d","e","x">>,
        <<"r","e","l","a","t","i","o","n","a","l">>,
        <<"m","o","n","g","o">>,
        <<"p","o","s","t","g","r","e","s","q","l">>,
        <<"m","y","s","q","l">>,
        <<"o","r","a","c","l","e">>,
        <<"s","q","l","i","t","e">>,
        <<"j","o","i","n">>,
        <<"t","r","a","n","s","a","c","t","i","o","n">>,
        <<"a","c","i","d">>,
        <<"n","o","r","m","a","l","i","z","a","t","i","o","n">>,
        <<"d","e","n","o","r","m","a","l","i","z","a","t","i","o","n">>,
        <<"s","c","h","e","m","a">>,
        <<"t","a","b","l","e">>,
        <<"c","o","l","u","m","n">>,
        <<"r","o","w">>,
        <<"p","r","i","m","a","r","y"," ","k","e","y">>,
        <<"f","o","r","e","i","g","n"," ","k","e","y">>,
        <<"c","o","u","c","h","b","a","s","e">>,
        <<"c","a","s","s","a","n","d","r","a">>,
        <<"r","e","d","i","s">>,
        <<"m","e","m","c","a","c","h","e","d">> >>],
    [domain |-> "networking", keywords |-> <<
        <<"n","e","t","w","o","r","k">>,
        <<"t","c","p","/","i","p">>,
        <<"h","t","t","p">>,
        <<"h","t","t","p","s">>,
        <<"d","n","s">>,
        <<"i","p"," ","a","d","d","r","e","s","s">>,
        <<"s","u","b","n","e","t">>,
        <<"g","a","t","e","w","a","y">>,
        <<"r","o","u","t","i","n","g">>,
        <<"f","i","r","e","w","a","l","l">>,
        <<"v","p","n">>,
        <<"p","r","o","x","y">>,
        <<"l","o","a","d"," ","b","a","l","a","n","c","e","r">>,
        <<"c","d","n">>,
        <<"l","a","t","e","n","c","y">>,
        <<"b","a","n","d","w","i","d","t","h">>,
        <<"p","a","c","k","e","t">>,
        <<"p","r","o","t","o","c","o","l">>,
        <<"s","o","c","k","e","t">>,
        <<"p","o","r","t">>,
        <<"n","a","t">> >>],
    [domain |-> "security", keywords |-> <<
        <<"s","e","c","u","r","i","t","y">>,
        <<"e","n","c","r","y","p","t","i","o","n">>,
        <<"a","u","t","h","e","n","t","i","c","a","t","i","o","n">>,
        <<"a","u","t","h","o","r","i","z","a","t","i","o","n">>,
        <<"o","a","u","t","h">>,
        <<"j","w","t">>,
        <<"c","e","r","t","i","f","i","c","a","t","e">>,
        <<"v","u","l","n","e","r","a","b","i","l","i","t","y">>,
        <<"e","x","p","l","o","i","t">>,
        <<"p","e","n","e","t","r","a","t","i","o","n"," ","t","e","s","t">>,
        <<"f","i","r","e","w","a","l","l">>,
        <<"c","s","r","f">>,
        <<"x","s","s">>,
        <<"s","q","l"," ","i","n","j","e","c","t","i","o","n">>,
        <<"h","a","s","h">>,
        <<"s","a","l","t">>,
        <<"c","i","p","h","e","r">> >>],
    [domain |-> "web-development", keywords |-> <<
        <<"h","t","m","l">>,
        <<"c","s","s">>,
        <<"j","a","v","a","s","c","r","i","p","t">>,
        <<"d","o","m">>,
        <<"r","e","a","c","t">>,
        <<"a","n","g","u","l","a","r">>,
        <<"v","u","e">>,
        <<"s","v","e","l","t","e">>,
        <<"w","e","b","p","a","c","k">>,
        <<"b","a","b","e","l">>,
        <<"r","e","s","p","o","n","s","i","v","e">>,
        <<"s","p","a">>,
        <<"p","w","a">>,
        <<"w","e","b"," ","c","o","m","p","o","n","e","n","t">>,
        <<"s","a","s","s">>,
        <<"l","e","s","s">>,
        <<"b","o","o","t","s","t","r","a","p">>,
        <<"t","a","i","l","w","i","n","d">>,
        <<"a","j","a","x">>,
        <<"f","e","t","c","h">>,
        <<"r","e","s","t","f","u","l">>,
        <<"g","r","a","p","h","q","l">>,
        <<"b","r","o","w","s","e","r">>,
        <<"r","e","n","d","e","r">>,
        <<"a","c","c","e","s","s","i","b","i","l","i","t","y">>,
        <<"a","1","1","y">>,
        <<"c","o","r","s">>,
        <<"f","r","o","n","t","e","n","d">>,
        <<"b","a","c","k","e","n","d">> >>],
    [domain |-> "mobile-development", keywords |-> <<
        <<"a","n","d","r","o","i","d">>,
        <<"i","o","s">>,
        <<"s","w","i","f","t">>,
        <<"k","o","t","l","i","n">>,
        <<"r","e","a","c","t"," ","n","a","t","i","v","e">>,
        <<"f","l","u","t","t","e","r">>,
        <<"m","o","b","i","l","e">>,
        <<"a","p","p"," ","s","t","o","r","e">>,
        <<"p","l","a","y"," ","s","t","o","r","e">>,
        <<"n","o","t","i","f","i","c","a","t","i","o","n">>,
        <<"r","e","s","p","o","n","s","i","v","e">>,
        <<"t","o","u","c","h">>,
        <<"g","e","s","t","u","r","e">>,
        <<"x","c","o","d","e">>,
        <<"a","n","d","r","o","i","d"," ","s","t","u","d","i","o">>,
        <<"e","m","u","l","a","t","o","r">>,
        <<"s","i","m","u","l","a","t","o","r">> >>],
    [domain |-> "data-science", keywords |-> <<
        <<"d","a","t","a"," ","s","c","i","e","n","c","e">>,
        <<"m","a","c","h","i","n","e"," ","l","e","a","r","n","i","n","g">>,
        <<"s","t","a","t","i","s","t","i","c","s">>,
        <<"r","e","g","r","e","s","s","i","o","n">>,
        <<"c","l","a","s","s","i","f","i","c","a","t","i","o","n">>,
        <<"c","l","u","s","t","e","r","i","n","g">>,
        <<"n","e","u","r","a","l"," ","n","e","t","w","o","r","k">>,
        <<"p","a","n","d","a","s">>,
        <<"n","u","m","p","y">>,
        <<"s","c","i","p","y">>,
        <<"m","a","t","p","l","o","t","l","i","b">>,
        <<"j","u","p","y","t","e","r">>,
        <<"k","a","g","g","l","e">>,
        <<"f","e","a","t","u","r","e">>,
        <<"d","a","t","a","s","e","t">>,
        <<"m","o","d","e","l">>,
        <<"t","r","a","i","n">>,
        <<"t","e","s","t">>,
        <<"v","a","l","i","d","a","t","e">>,
        <<"a","c","c","u","r","a","c","y">>,
        <<"p","r","e","c","i","s","i","o","n">>,
        <<"r","e","c","a","l","l">>,
        <<"f","1"," ","s","c","o","r","e">>,
        <<"r"," ","s","q","u","a","r","e","d">>,
        <<"v","i","s","u","a","l","i","z","a","t","i","o","n">> >>],
    [domain |-> "artificial-intelligence", keywords |-> <<
        <<"a","i">>,
        <<"a","r","t","i","f","i","c","i","a","l"," ","i","n","t","e","l","l","i","g","e","n","c","e">>,
        <<"m","a","c","h","i","n","e"," ","l","e","a","r","n","i","n","g">>,
        <<"d","e","e","p"," ","l","e","a","r","n","i","n","g">>,
        <<"n","e","u","r","a","l"," ","n","e","t","w","o","r","k">>,
        <<"n","l","p">>,
        <<"n","a","t","u","r","a","l"," ","l","a","n","g","u","a","g","e"," ","p","r","o","c","e","s","s","i","n","g">>,
        <<"c","o","m","p","u","t","e","r"," ","v","i","s","i","o","n">>,
        <<"r","e","i","n","f","o","r","c","e","m","e","n","t"," ","l","e","a","r","n","i","n","g">>,
        <<"s","u","p","e","r","v","i","s","e","d">>,
        <<"u","n","s","u","p","e","r","v","i","s","e","d">>,
        <<"t","e","n","s","o","r","f","l","o","w">>,
        <<"p","y","t","o","r","c","h">>,
        <<"k","e","r","a","s">>,
        <<"t","r","a","n","s","f","o","r","m","e","r","s">>,
        <<"g","p","t">>,
        <<"b","e","r","t">>,
        <<"l","l","m">>,
        <<"l","a","r","g","e"," ","l","a","n","g","u","a","g","e"," ","m","o","d","e","l">>,
        <<"e","m","b","e","d","d","i","n","g">>,
        <<"t","o","k","e","n","s">>,
        <<"f","i","n","e","-","t","u","n","i","n","g">>,
        <<"p","r","o","m","p","t"," ","e","n","g","i","n","e","e","r","i","n","g">>,
        <<"r","l","h","f">>,
        <<"d","i","f","f","u","s","i","o","n"," ","m","o","d","e","l">> >>],
    [domain |-> "general-technical", keywords |-> <<
        <<"t","e","c","h","n","i","c","a","l">>,
        <<"t","e","c","h","n","o","l","o","g","y">>,
        <<"s","y","s","t","e","m">>,
        <<"a","r","c","h","i","t","e","c","t","u","r","e">>,
        <<"d","e","s","i","g","n"," ","p","a","t","t","e","r","n">>,
        <<"b","e","s","t"," ","p","r","a","c","t","i","c","e">>,
        <<"i","m","p","l","e","m","e","n","t","a","t","i","o","n">>,
        <<"i","n","t","e","g","r","a","t","i","o","n">>,
        <<"c","o","n","f","i","g","u","r","a","t","i","o","n">>,
        <<"s","e","t","u","p">>,
        <<"i","n","s","t","a","l","l">>,
        <<"u","n","i","n","s","t","a","l","l">>,
        <<"u","p","d","a","t","e">>,
        <<"u","p","g","r","a","d","e">>,
        <<"d","o","w","n","g","r","a","d","e">>,
        <<"c","o","m","p","a","t","i","b","i","l","i","t","y">>,
        <<"p","e","r","f","o","r","m","a","n","c","e">>,
        <<"o","p","t","i","m","i","z","a","t","i","o","n">>,
        <<"b","o","t","t","l","e","n","e","c","k">>,
        <<"s","c","a","l","a","b","i","l","i","t","y">>,
        <<"m","a","i","n","t","e","n","a","n","c","e">> >>]
  >>

GeneralDomain == "general-technical"

\* questionPatterns: each regular expression but the last is a group of
\* literal alternatives searched anywhere in the text, written here in lower
\* case (the patterns carry the i flag and the detector lowercases the text);
\* the last one, /\?$/, is questionMarkAtEnd.
questionPatterns ==
  << {<<"h","o","w"," ","d","o"," ","i">>,
      <<"h","o","w"," ","c","a","n"," ","i">>,
      <<"h","o","w"," ","w","o","u","l","d"," ","i">>,
      <<"h","o","w"," ","s","h","o","u","l","d"," ","i">>},
     {<<"h","o","w"," ","t","o">>,
      <<"h","o","w"," ","d","o"," ","y","o","u">>},
     {<<"w","h","a","t"," ","i","s">>,
      <<"w","h","a","t"," ","a","r","e">>,
      <<"w","h","a","t"," ","d","o","e","s">>},
     {<<"w","h","y"," ","d","o","e","s">>,
      <<"w","h","y"," ","i","s">>,
      <<"w","h","y"," ","a","r","e">>,
      <<"w","h","y"," ","d","o">>},
     {<<"c","a","n"," ","y","o","u"," ","e","x","p","l","a","i","n">>},
     {<<"c","o","u","l","d"," ","y","o","u"," ","h","e","l","p">>,
      <<"c","o","u","l","d"," ","y","o","u"," ","t","e","l","l">>,
      <<"c","o","u","l","d"," ","y","o","u"," ","e","x","p","l","a","i","n">>,
      <<"c","o","u","l","d"," ","y","o","u"," ","d","e","s","c","r","i","b","e">>},
     {<<"d","i","f","f","e","r","e","n","c","e"," ","b","e","t","w","e","e","n">>},
     {<<"w","h","e","n"," ","s","h","o","u","l","d">>,
      <<"w","h","e","n"," ","w","o","u","l","d">>,
      <<"w","h","e","n"," ","d","o">>},
     {<<"w","h","e","r","e"," ","c","a","n">>,
      <<"w","h","e","r","e"," ","s","h","o","u","l","d">>,
      <<"w","h","e","r","e"," ","d","o">>} >>

\* /\?$/ : the text ends with a question mark
questionMarkAtEnd(text) == endsWith(text, <<"?">>)

\* hasQuestionPattern
hasQuestionPattern(text) ==
  \/ WithValue(toLowerCase(text), LAMBDA lowerText :
       \E p \in 1..Len(questionPatterns) :
         \E alt \in questionPatterns[p] : includes(lowerText, alt))
  \/ questionMarkAtEnd(text)

\* \w of a regular expression
WordChars ==
  {UpperChars[i] : i \in 1..Len(UpperChars)} \cup
  {LowerChars[i] : i \in 1..Len(LowerChars)} \cup DigitChars \cup {"_"}

isWordChar(c) == c \in WordChars

\* \b just before (1-based) position i of s, for i in 1..Len(s)+1
wordBoundaryAt(s, i) ==
  LET before == i > 1 /\ isWordChar(s[i - 1])
      after  == i <= Len(s) /\ isWordChar(s[i])
  IN  before # after

\* new RegExp(`\\b${keyword}\\b`, 'i').test(text)
keywordRegexTest(keyword, text) ==
  \E i \in 1..(Len(text) - Len(keyword) + 1) :
    /\ wordBoundaryAt(text, i)
    /\ wordBoundaryAt(text, i + Len(keyword))
    /\ \A k \in 1..Len(keyword) : lowerChar(text[i + k - 1]) = lowerChar(keyword[k])

\* every keyword of every vocabulary, in scan order
allKeywords == concat([d \in 1..Len(technicalKeywords) |-> technicalKeywords[d].keywords])

inSeq(xs, x) == \E i \in 1..Len(xs) : xs[i] = x

\* findTechnicalKeywords: the matching keywords in scan order, each once
\* (a keyword listed in a later vocabulary again is already in matches)
findTechnicalKeywords(text) ==
  WithValue(allKeywords, LAMBDA keywords :
    LET firstMatch(i) ==
          /\ keywordRegexTest(keywords[i], text)
          /\ \A j \in 1..(i - 1) : keywords[j] # keywords[i]
    IN  WithValue(SelectSeq([i \in 1..Len(keywords) |-> i], firstMatch),
                  LAMBDA hits : [k \in 1..Len(hits) |-> keywords[hits[k]]]))

\* domainCounts[domain] of determineTechnicalDomain
domainCount(d, keywords) ==
  Cardinality({i \in 1..Len(keywords) :
                 inSeq(technicalKeywords[d].keywords, toLowerCase(keywords[i]))})

\* a variant of the loop over domainCounts where a later domain with the same
\* count replaces the earlier one
RECURSIVE topDomainFromLastWins(_, _, _, _)
topDomainFromLastWins(d, keywords, maxCount, topDomain) ==
  IF d > Len(technicalKeywords) THEN topDomain
  ELSE WithValue(domainCount(d, keywords), LAMBDA count :
         IF count >= maxCount /\ count > 0
         THEN topDomainFromLastWins(d + 1, keywords, count, technicalKeywords[d].domain)
         ELSE topDomainFromLastWins(d + 1, keywords, maxCount, topDomain))

\* the loop over domainCounts: the first domain with the greatest count
RECURSIVE topDomainFrom(_, _, _, _)
topDomainFrom(d, keywords, maxCount, topDomain) ==
  IF d > Len(technicalKeywords) THEN topDomain
  ELSE WithValue(domainCount(d, keywords), LAMBDA count :
         IF count > maxCount
         THEN topDomainFrom(d + 1, keywords, count, technicalKeywords[d].domain)
         ELSE topDomainFrom(d + 1, keywords, maxCount, topDomain))

\* determineTechnicalDomain
determineTechnicalDomain(keywords) ==
  IF Len(keywords) = 0
  THEN [category |-> GeneralDomain, keywordCount |-> 0]
  ELSE [category |-> topDomainFrom(1, keywords, 0, GeneralDomain),
        keywordCount |-> Len(keywords)]

\* Confidence values are kept in hundredths.
BaseQuestionLike == 50

BaseNotQuestionLike == 20

KeywordWeight == 15

KeywordWeightCap == 45

ConfidenceCap == 95

TechnicalThreshold == 60

\* a variant of calculateConfidence without the cap on the keyword weight
calculateConfidenceUncappedWeight(isQuestionLike, keywordCount, textLength) ==
  LET base == IF isQuestionLike THEN BaseQuestionLike ELSE BaseNotQuestionLike
      withKeywords == IF textLength > 0
                      THEN base + keywordCount * KeywordWeight
                      ELSE base
  IN  Min2(withKeywords, ConfidenceCap)

\* a variant of calculateConfidence with the same base for every text
calculateConfidenceFlatBase(isQuestionLike, keywordCount, textLength) ==
  LET withKeywords == IF textLength > 0
                      THEN BaseQuestionLike
                           + Min2(keywordCount * KeywordWeight, KeywordWeightCap)
                      ELSE BaseQuestionLike
  IN  Min2(withKeywords, ConfidenceCap)

\* calculateConfidence
calculateConfidence(isQuestionLike, keywordCount, textLength) ==
  LET base == IF isQuestionLike THEN BaseQuestionLike ELSE BaseNotQuestionLike
      withKeywords == IF textLength > 0
                      THEN base + Min2(keywordCount * KeywordWeight, KeywordWeightCap)
                      ELSE base
  IN  Min2(withKeywords, ConfidenceCap)

NoCategory == "undefined"

\* a variant of detectTechnicalQuestion that returns the category of every text
detectTechnicalQuestionKeepsCategory(text) ==
  WithValue(toLowerCase(trim(text)), LAMBDA cleanText :
  WithValue(findTechnicalKeywords(cleanText), LAMBDA keywordMatches :
  WithValue(determineTechnicalDomain(keywordMatches), LAMBDA dom :
  WithValue(calculateConfidence(hasQuestionPattern(cleanText), dom.keywordCount,
                                Len(cleanText)), LAMBDA confidence :
    [isTechnical |-> confidence > TechnicalThreshold,
     confidence |-> confidence,
     category |-> dom.category,
     detectedKeywords |-> keywordMatches]))))

\* detectTechnicalQuestion
detectTechnicalQuestion(text) ==
  WithValue(toLowerCase(trim(text)), LAMBDA cleanText :
  WithValue(findTechnicalKeywords(cleanText), LAMBDA keywordMatches :
  WithValue(determineTechnicalDomain(keywordMatches), LAMBDA dom :
  WithValue(calculateConfidence(hasQuestionPattern(cleanText), dom.keywordCount,
                                Len(cleanText)), LAMBDA confidence :
    LET isTechnical == confidence > TechnicalThreshold
    IN  [isTechnical |-> isTechnical,
         confidence |-> confidence,
         category |-> IF isTechnical THEN dom.category ELSE NoCategory,
         detectedKeywords |-> keywordMatches]))))

\* Number.prototype.toString for a non-negative integer
RECURSIVE numberToString(_)
numberToString(n) ==
  IF n < 10 THEN <<DigitSeq[n + 1]>>
  ELSE numberToString(n \div 10) \o numberToString(n % 10)

\* detectTechnicalQuestion(text), read from memo where memo holds it
detectionOf(text) ==
  IF text \in DOMAIN memo.detection THEN memo.detection[text]
  ELSE detectTechnicalQuestion(text)

\* a variant of createTechnicalQuestion without the check of isTechnical
createTechnicalQuestionUnchecked(text, clock) ==
  WithValue(detectionOf(text), LAMBDA detectionResult :
    << [id |-> numberToString(clock),
        text |-> trim(text),
        category |-> detectionResult.category,
        confidence |-> detectionResult.confidence] >>)

\* createTechnicalQuestion when Date.now() is clock: <<>> for null, else the
\* one-element sequence holding the question (the timestamp shown beside a
\* question is a display string no operation reads, and is left out).
createTechnicalQuestion(text, clock) ==
  WithValue(detectionOf(text), LAMBDA detectionResult :
    IF ~detectionResult.isTechnical THEN <<>>
    ELSE << [id |-> numberToString(clock),
             text |-> trim(text),
             category |-> detectionResult.category,
             confidence |-> detectionResult.confidence] >>)

(***************************************************************************)
(* VoiceUI: question extraction and the question registry.                 *)
(***************************************************************************)

\* conversationalPatterns of mightBeConversationalQuery
conversationalPatterns ==
  << <<"t","e","l","l"," ","m","e">>,
     <<"e","x","p","l","a","i","n">>,
     <<"d","e","s","c","r","i","b","e">>,
     <<"s","h","o","w"," ","m","e">>,
     <<"h","e","l","p"," ","m","e">>,
     <<"i"," ","n","e","e","d">>,
     <<"i"," ","w","a","n","t">>,
     <<"g","i","v","e"," ","m","e">>,
     <<"c","a","n"," ","y","o","u">>,
     <<"p","l","e","a","s","e">>,
     <<"h","o","w"," ","d","o">>,
     <<"w","h","a","t"," ","i","s">>,
     <<"w","h","a","t"," ","a","r","e">>,
     <<"w","h","y"," ","i","s">>,
     <<"w","h","y"," ","a","r","e">> >>

\* mightBeConversationalQuery
mightBeConversationalQuery(text) ==
  WithValue(trim(toLowerCase(text)), LAMBDA lowerText :
    \E p \in 1..Len(conversationalPatterns) : includes(lowerText, conversationalPatterns[p]))

\* questionIndicators of extractQuestions
questionIndicators ==
  << <<"h","o","w">>,
     <<"w","h","a","t">>,
     <<"w","h","y">>,
     <<"w","h","e","n">>,
     <<"w","h","e","r","e">>,
     <<"w","h","i","c","h">>,
     <<"w","h","o">>,
     <<"w","h","o","s","e">>,
     <<"w","h","o","m">>,
     <<"c","a","n">>,
     <<"c","o","u","l","d">>,
     <<"w","o","u","l","d">>,
     <<"s","h","o","u","l","d">>,
     <<"i","s">>,
     <<"a","r","e">>,
     <<"a","m">>,
     <<"w","a","s">>,
     <<"w","e","r","e">>,
     <<"d","o">>,
     <<"d","o","e","s">>,
     <<"d","i","d">>,
     <<"h","a","s">>,
     <<"h","a","v","e">>,
     <<"h","a","d">>,
     <<"w","i","l","l">>,
     <<"s","h","a","l","l">>,
     <<"t","e","l","l"," ","m","e">>,
     <<"e","x","p","l","a","i","n">>,
     <<"d","e","s","c","r","i","b","e">>,
     <<"s","h","o","w"," ","m","e">>,
     <<"h","e","l","p"," ","m","e"," ","u","n","d","e","r","s","t","a","n","d">> >>

SentenceTerminators == {".", "!", "?"}

MinSentenceLength == 3

FallbackMaxLength == 150

\* the loop body of extractQuestions for one sentence: what it pushes
sentenceCandidate(text, sentence) ==
  WithValue(trim(sentence), LAMBDA trimmed :
  WithValue(toLowerCase(trimmed), LAMBDA lowerSentence :
    IF Len(trimmed) < MinSentenceLength THEN <<>>
    ELSE IF includes(text, trimmed \o <<"?">>) THEN << trimmed \o <<"?">> >>
    ELSE IF \E k \in 1..Len(questionIndicators) :
              \/ startsWith(lowerSentence, questionIndicators[k])
              \/ includes(lowerSentence, <<" ">> \o questionIndicators[k] \o <<" ">>)
         THEN << trimmed >>
         ELSE <<>>))

nonBlank(s) == Len(trim(s)) > 0

\* a variant of extractQuestions whose fallback takes a text of
\* FallbackMaxLength characters too
extractQuestionsFallbackInclusive(str) ==
  WithValue(str, LAMBDA text :
  WithValue(SelectSeq(split(text, SentenceTerminators), nonBlank), LAMBDA sentences :
  WithValue(concat([k \in 1..Len(sentences) |-> sentenceCandidate(text, sentences[k])]),
            LAMBDA result :
  WithValue(trim(text), LAMBDA trimmedText :
    IF Len(result) = 0 /\ Len(trimmedText) > 0 /\ Len(trimmedText) <= FallbackMaxLength
    THEN << trimmedText >>
    ELSE result))))

\* extractQuestions.  text.split(/[.!?]+/) differs from splitting at every
\* terminator only by empty pieces, which the filter drops.
extractQuestions(str) ==
  WithValue(str, LAMBDA text :
  WithValue(SelectSeq(split(text, SentenceTerminators), nonBlank), LAMBDA sentences :
  WithValue(concat([k \in 1..Len(sentences) |-> sentenceCandidate(text, sentences[k])]),
            LAMBDA result :
  WithValue(trim(text), LAMBDA trimmedText :
    IF Len(result) = 0 /\ Len(trimmedText) > 0 /\ Len(trimmedText) < FallbackMaxLength
    THEN << trimmedText >>
    ELSE result))))

\* calculateSimilarity(a, b), read from memo where memo holds it
similarityOf(a, b) ==
  IF <<a, b>> \in DOMAIN memo.similarity THEN memo.similarity[<<a, b>>]
  ELSE calculateSimilarity(a, b)

\* a variant of areSimilarQuestions that only recognises identical texts
areSimilarQuestionsExact(q1, q2) == q1 = q2

\* areSimilarQuestions
areSimilarQuestions(q1, q2) == aboveThreshold(similarityOf(q1, q2))

\* isSegmentProcessed, over the processedSegments the calling closure holds
isSegmentProcessed(segments, segment) ==
  \E k \in 1..Len(segments) : aboveThreshold(similarityOf(segments[k].text, segment))

MinQuestionLength == 5

longEnough(questionText) == Len(questionText) > MinQuestionLength

\* a variant of textsToAnalyze without the minimum length of a question
textsToAnalyzeUnfiltered(segment) ==
  WithValue(extractQuestions(segment), LAMBDA questions :
    IF Len(questions) = 0 /\ Len(segment) > MinQuestionLength
    THEN (IF mightBeConversationalQuery(segment) THEN << segment >> ELSE <<>>)
    ELSE questions)

\* processNewSpeechSegment: the texts it passes to analyzeQuestion, in order
textsToAnalyze(segment) ==
  WithValue(extractQuestions(segment), LAMBDA questions :
    IF Len(questions) = 0 /\ Len(segment) > MinQuestionLength
    THEN (IF mightBeConversationalQuery(segment) THEN << segment >> ELSE <<>>)
    ELSE SelectSeq(questions, longEnough))

\* textsToAnalyze(segment), read from memo where memo holds it
toAnalyzeOf(segment) ==
  IF segment \in DOMAIN memo.toAnalyze THEN memo.toAnalyze[segment]
  ELSE textsToAnalyze(segment)

\* variants of analyzeQuestion: the selection set to newQuestions.length, the
\* selection moved to the last entry on a duplicate, and the new question put
\* in front of the list
analyzeQuestionIndexPastEnd(reg, questionText, clock) ==
  WithValue(createTechnicalQuestion(questionText, clock), LAMBDA question :
      IF question = <<>> THEN reg
      ELSE IF \E k \in 1..Len(reg.questions) :
                aboveThreshold(similarityOf(reg.questions[k].text, question[1].text))
           THEN reg
           ELSE [questions |-> Append(reg.questions, question[1]),
                 index     |-> Len(reg.questions) + 1])

analyzeQuestionSelectsOnDuplicate(reg, questionText, clock) ==
  WithValue(createTechnicalQuestion(questionText, clock), LAMBDA question :
      IF question = <<>> THEN reg
      ELSE IF \E k \in 1..Len(reg.questions) :
                aboveThreshold(similarityOf(reg.questions[k].text, question[1].text))
           THEN [reg EXCEPT !.index = Len(reg.questions) - 1]
           ELSE [questions |-> Append(reg.questions, question[1]),
                 index     |-> Len(reg.questions) + 1 - 1])

analyzeQuestionPrepends(reg, questionText, clock) ==
  WithValue(createTechnicalQuestion(questionText, clock), LAMBDA question :
      IF question = <<>> THEN reg
      ELSE IF \E k \in 1..Len(reg.questions) :
                aboveThreshold(similarityOf(reg.questions[k].text, question[1].text))
           THEN reg
           ELSE [questions |-> <<question[1]>> \o reg.questions,
                 index     |-> Len(reg.questions) + 1 - 1])

\* a variant of analyzeQuestion that takes entries with the same id for duplicates
analyzeQuestionComparesIds(reg, questionText, clock) ==
  WithValue(createTechnicalQuestion(questionText, clock), LAMBDA question :
      IF question = <<>> THEN reg
      ELSE IF \E k \in 1..Len(reg.questions) : reg.questions[k].id = question[1].id
           THEN reg
           ELSE [questions |-> Append(reg.questions, question[1]),
                 index     |-> Len(reg.questions) + 1 - 1])

\* analyzeQuestion on the registry reg = [questions, index] at clock value clock:
\* the updater given to setDetectedQuestions, with the setCurrentQuestionIndex
\* it performs.
analyzeQuestion(reg, questionText, clock) ==
  WithValue(createTechnicalQuestion(questionText, clock), LAMBDA question :
      IF question = <<>> THEN reg
      ELSE IF \E k \in 1..Len(reg.questions) :
                areSimilarQuestions(reg.questions[k].text, question[1].text)
           THEN reg
           ELSE [questions |-> Append(reg.questions, question[1]),
                 index     |-> Len(reg.questions) + 1 - 1])

\* questions.forEach(analyzeQuestion): the updaters run in call order
RECURSIVE analyzeEach(_, _, _)
analyzeEach(reg, texts, clock) ==
  IF texts = <<>> THEN reg
  ELSE WithValue(analyzeQuestion(reg, Head(texts), clock),
                 LAMBDA next : analyzeEach(next, Tail(texts), clock))

(***************************************************************************)
(* Bounds and inputs of the model.                                         *)
(***************************************************************************)
MaxSegments == 2

MaxClock == 1

MaxRequests == 1

MaxPendingCaptures == 1

MaxChunks == 2

TextCssCaps == <<"W","h","a","t"," ","i","s"," ","C","S","S">>  \* "What is CSS"

TextCssDns  == <<"w","h","a","t"," ","i","s"," ","c","s","s","?"," ",
                 "h","o","w"," ","t","o"," ","u","s","e"," ","d","n","s","?">>
               \* "what is css? how to use dns?"

\* the texts of the documented duplicate example; they are not delivered as
\* fragments, the pure functions are evaluated on them
TextMutexQ  == <<"H","o","w"," ","d","o"," ","I"," ","u","s","e"," ","a"," ",
                 "m","u","t","e","x","?">>  \* "How do I use a mutex?"

TextMutex   == <<"H","o","w"," ","d","o"," ","I"," ","u","s","e"," ","a"," ",
                 "m","u","t","e","x">>  \* "How do I use a mutex"

ExampleTexts == {TextMutexQ, TextMutex}

TextHello   == <<"h","e","l","l","o">>  \* "hello"

TextWhatIs  == <<"w","h","a","t"," ","i","s">>  \* "what is"

Final(t)   == [transcript |-> t, isFinal |-> TRUE]

Interim(t) == [transcript |-> t, isFinal |-> FALSE]

\* SpeechRecognitionEvent values delivered by the engine (resultIndex is 0-based)
Events ==
  { [resultIndex |-> 1, results |-> <<Final(TextHello), Final(TextCssCaps)>>],
    [resultIndex |-> 0, results |-> <<Final(TextCssDns)>>],
    [resultIndex |-> 0, results |-> <<Interim(TextWhatIs)>>] }

\* the events delivered where AnswerDisplay is observed
AnswerEvents == { [resultIndex |-> 0, results |-> <<Final(TextCssDns)>>] }

\* "how are you? what is css?"
TextSmallTalk == <<"h","o","w"," ","a","r","e"," ","y","o","u","?"," ",
                   "w","h","a","t"," ","i","s"," ","c","s","s","?">>

\* the events delivered where the capture is observed
ListenEvents ==
  { [resultIndex |-> 0, results |-> <<Interim(TextWhatIs)>>],
    [resultIndex |-> 0, results |-> <<Final(TextSmallTalk)>>] }

ApiKeys == { <<"s","k","-","1">>, <<"s","k","-","2">> }

\* a variant of finalOf that takes every result of the event as final
finalOfEveryResult(e) ==
  LET picked(k) == IF k > e.resultIndex THEN e.results[k].transcript ELSE <<>>
  IN  concat([k \in 1..Len(e.results) |-> picked(k)])

\* the for loop of handleRecognitionResult: final and interim text of an event
finalOf(e) ==
  LET picked(k) == IF k > e.resultIndex /\ e.results[k].isFinal
                   THEN e.results[k].transcript ELSE <<>>
  IN  concat([k \in 1..Len(e.results) |-> picked(k)])

interimOf(e) ==
  LET picked(k) == IF k > e.resultIndex /\ ~e.results[k].isFinal
                   THEN e.results[k].transcript ELSE <<>>
  IN  concat([k \in 1..Len(e.results) |-> picked(k)])

seqRange(xs) == {xs[k] : k \in 1..Len(xs)}

FinalTexts == {finalOf(e) : e \in Events \cup ListenEvents} \ {<<>>}

AnalyzedTexts ==
  (UNION {seqRange(textsToAnalyze(f)) : f \in FinalTexts}) \cup ExampleTexts

SimilarityTexts == FinalTexts \cup {trim(t) : t \in AnalyzedTexts}

\* The pure functions on the texts above, evaluated once.
MemoValue ==
  [ toAnalyze  |-> [f \in FinalTexts |-> textsToAnalyze(f)],
    detection  |-> [t \in AnalyzedTexts |-> detectTechnicalQuestion(t)],
    similarity |-> [p \in SimilarityTexts \X SimilarityTexts |->
                      calculateSimilarity(p[1], p[2])] ]

(***************************************************************************)
(* Initial state: the components after mounting.                           *)
(***************************************************************************)
InitialAnswerDisplay ==
  [answer |-> <<>>, isLoading |-> FALSE, error |-> <<>>,
   responseTime |-> 0, isStreaming |-> FALSE]

NotSupportedMessage == <<"Speech recognition not supported in this browser">>

\* useState initial values and the mount effect of VoiceUI; the browser
\* either offers speech recognition or does not.
InitVoiceUI ==
  /\ isListening = FALSE
  /\ transcript = <<>>
  /\ interimTranscript = <<>>
  /\ source = "microphone"
  /\ recognition \in {"idle", "absent"}
  /\ error = IF recognition = "absent" THEN NotSupportedMessage ELSE <<>>
  /\ detectedQuestions = <<>>
  /\ currentQuestionIndex = -1
  /\ processedSegments = <<>>
  /\ apiKey = <<>>
  /\ mountClosure = [processedSegments |-> <<>>, isListening |-> FALSE]
  /\ pendingCaptures = 0
  /\ mediaStream = FALSE

\* no pure function is observed on its own while the components run
NoArgs == [a |-> <<>>, b |-> <<>>]

NotCalled == [fn |-> "none"]

Init ==
  /\ InitVoiceUI
  /\ now = 0
  /\ answerDisplay = InitialAnswerDisplay
  /\ requests = <<>>
  /\ memo = MemoValue
  /\ args = NoArgs
  /\ returned = NotCalled

(***************************************************************************)
(* VoiceUI rendering: AnswerDisplay is rendered only while the selected    *)
(* index is inside the list; when it is not, the component is unmounted,   *)
(* its state is lost and state updates of its pending requests go nowhere. *)
(***************************************************************************)
answerMounted(questions, index) == index >= 0 /\ index < Len(questions)

displayAfterRender(questions, index, display) ==
  IF answerMounted(questions, index) THEN display ELSE InitialAnswerDisplay

requestsAfterRender(questions, index, reqs) ==
  IF answerMounted(questions, index) THEN reqs
  ELSE [r \in 1..Len(reqs) |-> [reqs[r] EXCEPT !.live = FALSE]]

(***************************************************************************)
(* VoiceUI handlers.                                                       *)
(***************************************************************************)

\* processNewSpeechSegment as bound at mount: isSegmentProcessed reads the
\* processedSegments of the closure, the setters work on the current state.
\* The result is the new [segments, questions, index].
processNewSpeechSegment(segment) ==
  IF isSegmentProcessed(mountClosure.processedSegments, segment)
  THEN [segments |-> processedSegments,
        questions |-> detectedQuestions, index |-> currentQuestionIndex]
  ELSE LET reg == analyzeEach([questions |-> detectedQuestions,
                               index |-> currentQuestionIndex],
                              toAnalyzeOf(segment), now)
       IN  [segments |-> Append(processedSegments, [text |-> segment, timestamp |-> now]),
            questions |-> reg.questions, index |-> reg.index]

\* recognition.onresult = handleRecognitionResult
HandleRecognitionResult(e) ==
  /\ recognition \in {"running", "ending"}
  /\ LET final == finalOf(e)
         interim == interimOf(e)
     IN  IF final # <<>>
         THEN /\ Len(processedSegments) < MaxSegments
              /\ LET after == processNewSpeechSegment(final)
                 IN  /\ processedSegments' = after.segments
                     /\ detectedQuestions' = after.questions
                     /\ currentQuestionIndex' = after.index
                     /\ answerDisplay' = displayAfterRender(after.questions, after.index, answerDisplay)
                     /\ requests' = requestsAfterRender(after.questions, after.index, requests)
              /\ transcript' = IF transcript # <<>> THEN transcript \o <<" ">> \o final
                               ELSE final
              /\ interimTranscript' = <<>>
         ELSE /\ interimTranscript' = interim
              /\ UNCHANGED <<transcript, processedSegments, detectedQuestions,
                             currentQuestionIndex, answerDisplay, requests>>
  /\ UNCHANGED <<isListening, source, error, apiKey, recognition, mountClosure,
                 pendingCaptures, mediaStream, now, memo, pureVars>>

\* selectQuestion
selectQuestion(index) == index

\* onClick of a rendered question item
SelectQuestion(index) ==
  /\ index \in 0..(Len(detectedQuestions) - 1)
  /\ currentQuestionIndex' = selectQuestion(index)
  /\ answerDisplay' = displayAfterRender(detectedQuestions, currentQuestionIndex', answerDisplay)
  /\ requests' = requestsAfterRender(detectedQuestions, currentQuestionIndex', requests)
  /\ UNCHANGED <<isListening, transcript, interimTranscript, source, error,
                 detectedQuestions, processedSegments, apiKey, recognition,
                 mountClosure, pendingCaptures, mediaStream, now, memo, pureVars>>

\* selectQuestion called with any index (by a caller that holds the handler,
\* not through a rendered question item)
SelectQuestionCalled(index) ==
  /\ currentQuestionIndex' = selectQuestion(index)
  /\ answerDisplay' = displayAfterRender(detectedQuestions, currentQuestionIndex', answerDisplay)
  /\ requests' = requestsAfterRender(detectedQuestions, currentQuestionIndex', requests)
  /\ UNCHANGED <<isListening, transcript, interimTranscript, source, error,
                 detectedQuestions, processedSegments, apiKey, recognition,
                 mountClosure, pendingCaptures, mediaStream, now, memo, pureVars>>

\* a variant of clearTranscript that keeps the processed segments
clearTranscriptKeepsSegments(texts) ==
  [transcript |-> <<>>, interimTranscript |-> <<>>, error |-> <<>>,
   processedSegments |-> texts.processedSegments]

\* clearTranscript: the four setters, on the transcript state
clearTranscript(texts) ==
  [transcript |-> <<>>, interimTranscript |-> <<>>, error |-> <<>>,
   processedSegments |-> <<>>]

\* the state clearTranscript works on
transcriptState ==
  [transcript |-> transcript, interimTranscript |-> interimTranscript,
   error |-> error, processedSegments |-> processedSegments]

\* a variant of clearQuestions that leaves the selection as it is
clearQuestionsKeepsIndex(reg) == [questions |-> <<>>, index |-> reg.index]

\* clearQuestions: the two setters, on the registry
clearQuestions(reg) == [questions |-> <<>>, index |-> -1]

\* clearTranscript (button disabled when !transcript || isListening)
ClearTranscript ==
  /\ transcript # <<>>
  /\ ~isListening
  /\ transcript' = clearTranscript(transcriptState).transcript
  /\ interimTranscript' = clearTranscript(transcriptState).interimTranscript
  /\ error' = clearTranscript(transcriptState).error
  /\ processedSegments' = clearTranscript(transcriptState).processedSegments
  /\ UNCHANGED <<isListening, source, detectedQuestions, currentQuestionIndex, apiKey,
                 recognition, mountClosure, pendingCaptures, mediaStream, now,
                 answerDisplay, requests, memo, pureVars>>

\* clearQuestions (button rendered when there are questions, disabled when
\* isListening)
ClearQuestions ==
  /\ Len(detectedQuestions) > 0
  /\ ~isListening
  /\ LET cleared == clearQuestions([questions |-> detectedQuestions,
                                    index |-> currentQuestionIndex])
     IN  /\ detectedQuestions' = cleared.questions
         /\ currentQuestionIndex' = cleared.index
         /\ answerDisplay' = displayAfterRender(cleared.questions, cleared.index,
                                                answerDisplay)
         /\ requests' = requestsAfterRender(cleared.questions, cleared.index, requests)
  /\ UNCHANGED <<isListening, transcript, interimTranscript, source, error,
                 processedSegments, apiKey, recognition, mountClosure,
                 pendingCaptures, mediaStream, now, memo, pureVars>>

\* clearAll (button disabled when isListening || (!transcript && no questions))
ClearAll ==
  /\ ~isListening
  /\ ~(transcript = <<>> /\ Len(detectedQuestions) = 0)
  /\ transcript' = clearTranscript(transcriptState).transcript
  /\ interimTranscript' = clearTranscript(transcriptState).interimTranscript
  /\ error' = clearTranscript(transcriptState).error
  /\ processedSegments' = clearTranscript(transcriptState).processedSegments
  /\ LET cleared == clearQuestions([questions |-> detectedQuestions,
                                    index |-> currentQuestionIndex])
     IN  /\ detectedQuestions' = cleared.questions
         /\ currentQuestionIndex' = cleared.index
         /\ answerDisplay' = displayAfterRender(cleared.questions, cleared.index,
                                                answerDisplay)
         /\ requests' = requestsAfterRender(cleared.questions, cleared.index, requests)
  /\ UNCHANGED <<isListening, source, apiKey, recognition, mountClosure,
                 pendingCaptures, mediaStream, now, memo, pureVars>>

\* startListening (the button calls it when isListening is false)
StartListening ==
  /\ ~isListening
  /\ IF source = "microphone"
     THEN IF recognition = "idle"
          THEN /\ recognition' = "running"
               /\ isListening' = TRUE
               /\ error' = <<>>
               /\ UNCHANGED pendingCaptures
          ELSE \* no engine, or start() on a started engine: the catch block
               /\ error' = <<"Failed to start listening: ",
                             IF recognition = "absent"
                             THEN "Speech recognition not initialized"
                             ELSE "InvalidStateError">>
               /\ isListening' = FALSE
               /\ UNCHANGED <<recognition, pendingCaptures>>
     ELSE \* startSystemAudioCapture: getDisplayMedia is pending
          /\ pendingCaptures < MaxPendingCaptures
          /\ pendingCaptures' = pendingCaptures + 1
          /\ isListening' = TRUE
          /\ error' = <<>>
          /\ UNCHANGED recognition
  /\ UNCHANGED <<transcript, interimTranscript, source, detectedQuestions,
                 currentQuestionIndex, processedSegments, apiKey, mountClosure,
                 mediaStream, now, answerDisplay, requests, memo, pureVars>>

\* the then / catch callbacks of getDisplayMedia in startSystemAudioCapture
SystemCaptureSettled(outcome) ==
  /\ pendingCaptures > 0
  /\ pendingCaptures' = pendingCaptures - 1
  /\ IF outcome = "rejected"
     THEN /\ error' = <<"System audio capture failed: ", "NotAllowedError">>
          /\ isListening' = FALSE
          /\ UNCHANGED <<recognition, mediaStream>>
     ELSE /\ mediaStream' = TRUE
          /\ IF outcome = "no-audio"
             THEN /\ error' = <<"System audio capture failed: ",
                                "No audio track available from system capture">>
                  /\ isListening' = FALSE
                  /\ UNCHANGED recognition
             ELSE IF recognition = "idle"
                  THEN /\ recognition' = "running"
                       /\ UNCHANGED <<error, isListening>>
                  ELSE IF recognition = "absent"
                       THEN UNCHANGED <<recognition, error, isListening>>
                       ELSE /\ error' = <<"System audio capture failed: ", "InvalidStateError">>
                            /\ isListening' = FALSE
                            /\ UNCHANGED recognition
  /\ UNCHANGED <<transcript, interimTranscript, source, detectedQuestions,
                 currentQuestionIndex, processedSegments, apiKey, mountClosure,
                 now, answerDisplay, requests, memo, pureVars>>

\* stopListening (the button calls it when isListening is true)
StopListening ==
  /\ isListening
  /\ isListening' = FALSE
  /\ recognition' = IF recognition = "running" THEN "ending" ELSE recognition
  /\ mediaStream' = FALSE
  /\ UNCHANGED <<transcript, interimTranscript, source, error, detectedQuestions,
                 currentQuestionIndex, processedSegments, apiKey, mountClosure,
                 pendingCaptures, now, answerDisplay, requests, memo, pureVars>>

RecognitionErrorCodes == {"not-allowed", "no-speech", "audio-capture", "network", "aborted"}

\* a variant of the switch of recognition.onerror without its default case
recognitionErrorMessageNamedOnly(code) ==
  CASE code = "not-allowed" ->
         <<"Microphone access denied. Please check your browser permissions and privacy settings.">>
    [] code = "no-speech" -> <<"No speech detected. Please try speaking again.">>
    [] code = "audio-capture" -> <<"No microphone was found or microphone is busy.">>
    [] code = "network" -> <<"Network error occurred. Please check your connection.">>
    [] OTHER -> <<>>

\* the switch of recognition.onerror
recognitionErrorMessage(code) ==
  CASE code = "not-allowed" ->
         <<"Microphone access denied. Please check your browser permissions and privacy settings.">>
    [] code = "no-speech" -> <<"No speech detected. Please try speaking again.">>
    [] code = "audio-capture" -> <<"No microphone was found or microphone is busy.">>
    [] code = "network" -> <<"Network error occurred. Please check your connection.">>
    [] OTHER -> <<"Recognition error: ", code>>

\* recognition.onerror; the engine then ends its session
RecognitionError(code) ==
  /\ recognition = "running"
  /\ error' = recognitionErrorMessage(code)
  /\ isListening' = FALSE
  /\ recognition' = "ending"
  /\ UNCHANGED <<transcript, interimTranscript, source, detectedQuestions,
                 currentQuestionIndex, processedSegments, apiKey, mountClosure,
                 pendingCaptures, mediaStream, now, answerDisplay, requests, memo, pureVars>>

\* a variant of onendRestarts that restarts whatever the state
onendRestartsAlways(closure) == TRUE

\* if (isListening) of recognition.onend, which reads the isListening of the
\* closure the handler was created in
onendRestarts(closure) == closure.isListening

\* recognition.onend, as bound at mount: it reads the isListening of the closure
RecognitionEnd ==
  /\ recognition \in {"running", "ending"}
  /\ recognition' = IF onendRestarts(mountClosure) THEN "running" ELSE "idle"
  /\ UNCHANGED <<isListening, transcript, interimTranscript, source, error,
                 detectedQuestions, currentQuestionIndex, processedSegments, apiKey,
                 mountClosure, pendingCaptures, mediaStream, now, answerDisplay,
                 requests, memo, pureVars>>

\* onChange of the audio source radio buttons (disabled while listening)
SetSource(s) ==
  /\ ~isListening
  /\ source' = s
  /\ UNCHANGED <<isListening, transcript, interimTranscript, error, detectedQuestions,
                 currentQuestionIndex, processedSegments, apiKey, recognition,
                 mountClosure, pendingCaptures, mediaStream, now, answerDisplay,
                 requests, memo, pureVars>>

\* Date.now() advances
Tick ==
  /\ now < MaxClock
  /\ now' = now + 1
  /\ UNCHANGED <<voiceVars, answerDisplay, requests, memo, pureVars>>

(***************************************************************************)
(* Properties of the question registry and of segment processing.          *)
(***************************************************************************)
registry == [questions |-> detectedQuestions, index |-> currentQuestionIndex]

segmentTexts == [k \in 1..Len(processedSegments) |-> processedSegments[k].text]

\* C1: after any sequence of final fragments, selections and clears, no two
\* entries of detectedQuestions have similarity greater than 0.8 to each other.
C1_NoSimilarEntries ==
  \A i, j \in 1..Len(detectedQuestions) :
    i # j => ~aboveThreshold(similarityOf(detectedQuestions[i].text,
                                          detectedQuestions[j].text))

\* "what is css? how to use dns?" and then "What is CSS" were processed and
\* classified; the registry holds the two questions of the first fragment
C1_Witness ==
  /\ segmentTexts = <<TextCssDns, TextCssCaps>>
  /\ Len(detectedQuestions) = 2
  /\ currentQuestionIndex = 1

\* C2: after any sequence of final fragments, selections, clearQuestions and
\* clearAll, currentQuestionIndex is -1 or indexes an entry of the registry.
C2_SelectedIndexInRange ==
  \/ currentQuestionIndex = -1
  \/ (0 <= currentQuestionIndex /\ currentQuestionIndex < Len(detectedQuestions))

\* an earlier entry was selected while the registry holds several
C2_Witness ==
  /\ Len(detectedQuestions) >= 2
  /\ currentQuestionIndex = 0

\* C3: a final fragment delivered through the recognition result handler
\* whose similarity to the text of a recorded, uncleared ProcessedSegment
\* exceeds 0.8 is rejected: no new ProcessedSegment is recorded and nothing
\* from it is classified or inserted into the registry.
C3_RedeliveryRejected ==
  [][\A e \in Events :
       ( /\ HandleRecognitionResult(e)
         /\ finalOf(e) # <<>>
         /\ \E k \in 1..Len(processedSegments) :
              aboveThreshold(similarityOf(processedSegments[k].text, finalOf(e))) )
       => /\ processedSegments' = processedSegments
          /\ detectedQuestions' = detectedQuestions
          /\ currentQuestionIndex' = currentQuestionIndex]_vars

\* the registry after each of the first k texts of a fragment was analysed
registryAfter(texts, k) == analyzeEach(registry, SubSeq(texts, 1, k), now)

\* C4: inserting a candidate whose similarity to an existing registry entry
\* exceeds 0.8 (a text identical to an entry, or "How do I use a mutex" after
\* "How do I use a mutex?") is rejected with no mutation: the registry
\* sequence, its length and the selected index are unchanged.
C4_DuplicateRejected ==
  [][/\ aboveThreshold(similarityOf(TextMutexQ, TextMutex))
     /\ \A t \in {TextMutex, TextMutexQ} :
          analyzeQuestion([questions |-> <<[id |-> <<"0">>, text |-> TextMutexQ,
                                            category |-> GeneralDomain,
                                            confidence |-> 65]>>,
                           index |-> 0], t, now).questions[1].text = TextMutexQ
     /\ \A t \in {TextMutex, TextMutexQ} :
          analyzeQuestion([questions |-> <<[id |-> <<"0">>, text |-> TextMutexQ,
                                            category |-> GeneralDomain,
                                            confidence |-> 65]>>,
                           index |-> 0], t, now)
            = [questions |-> <<[id |-> <<"0">>, text |-> TextMutexQ,
                                category |-> GeneralDomain, confidence |-> 65]>>,
               index |-> 0]
     /\ \A e \in Events :
          (HandleRecognitionResult(e) /\ finalOf(e) # <<>>)
          => LET texts == toAnalyzeOf(finalOf(e))
             IN  /\ detectedQuestions' = registryAfter(texts, Len(texts)).questions
                 /\ currentQuestionIndex' = registryAfter(texts, Len(texts)).index
                 /\ \A k \in 1..Len(texts) :
                      (\E j \in 1..Len(registryAfter(texts, k - 1).questions) :
                         aboveThreshold(similarityOf(
                           registryAfter(texts, k - 1).questions[j].text,
                           trim(texts[k]))))
                      => registryAfter(texts, k) = registryAfter(texts, k - 1)]_vars

\* "what is css? how to use dns?" was processed twice while the first entry
\* was selected: two entries, the selection still on the first
C4_Witness ==
  /\ segmentTexts = <<TextCssDns, TextCssDns>>
  /\ Len(detectedQuestions) = 2
  /\ currentQuestionIndex = 0

\* C5: an accepted insertion appends the new question as the last entry,
\* leaves every existing entry unchanged in content and position and selects
\* the new entry; between clears the registry never shrinks or reorders.
C5_AppendOnly ==
  [][detectedQuestions' # detectedQuestions
     => \/ (detectedQuestions' = <<>> /\ currentQuestionIndex' = -1 /\ ~isListening)
        \/ ( /\ Len(detectedQuestions') > Len(detectedQuestions)
             /\ SubSeq(detectedQuestions', 1, Len(detectedQuestions)) = detectedQuestions
             /\ currentQuestionIndex' = Len(detectedQuestions') - 1 )]_vars

\* "What is CSS" was accepted, then "how to use dns?" of the next fragment was
\* appended behind it and selected
C5_Witness ==
  /\ Len(detectedQuestions) = 2
  /\ detectedQuestions[1].text = TextCssCaps
  /\ currentQuestionIndex = 1

\* C6: all entries of the registry have pairwise distinct ids, including
\* entries created from several candidates of one final fragment and entries
\* created with no clock advance in between.
C6_DistinctIds ==
  \A i, j \in 1..Len(detectedQuestions) :
    i # j => detectedQuestions[i].id # detectedQuestions[j].id

(***************************************************************************)
(* OpenAIService: the streamed response body and its parsing.              *)
(***************************************************************************)
DataPrefix == <<"d","a","t","a",":"," ">>  \* 'data: '

DonePayload == <<"[","D","O","N","E","]">>  \* '[DONE]'

DoneLine == DataPrefix \o DonePayload

\* the payload of a stream event that carries a content delta, around the
\* content: {"choices":[{"delta":{"content":"..."}}]}
ContentOpen ==
  <<"{","\"","c","h","o","i","c","e","s","\"",":","[","{","\"","d","e","l","t","a","\"",":","{","\"","c","o","n","t","e","n","t","\"",":","\"">>

ContentClose == <<"\"","}","}","]","}">>

\* the payload of a stream event without content: {"choices":[{"delta":{}}]}
NoContentPayload ==
  <<"{","\"","c","h","o","i","c","e","s","\"",":","[","{","\"","d","e","l","t","a","\"",":","{","}","}","]","}">>

\* characters that cannot stand unescaped inside a JSON string
JsonStringBreakers == {"\"", "\\", "\n"}

\* a variant of parseContent that hands a payload it cannot parse on as
\* content
parseContentKeepsRaw(jsonStr) ==
  IF /\ Len(jsonStr) >= Len(ContentOpen) + Len(ContentClose)
     /\ startsWith(jsonStr, ContentOpen)
     /\ endsWith(jsonStr, ContentClose)
  THEN [ok |-> TRUE,
        content |-> SubSeq(jsonStr, Len(ContentOpen) + 1, Len(jsonStr) - Len(ContentClose))]
  ELSE IF jsonStr = NoContentPayload
       THEN [ok |-> TRUE, content |-> <<>>]
       ELSE [ok |-> TRUE, content |-> jsonStr]

\* JSON.parse(jsonStr) followed by data.choices[0]?.delta?.content || '' on
\* the payloads above. Every other text the model can put behind 'data: ' is
\* a cut-off or damaged payload, on which JSON.parse throws; ok = FALSE is
\* the catch block.
parseContent(jsonStr) ==
  IF /\ Len(jsonStr) >= Len(ContentOpen) + Len(ContentClose)
     /\ startsWith(jsonStr, ContentOpen)
     /\ endsWith(jsonStr, ContentClose)
     /\ \A k \in (Len(ContentOpen) + 1)..(Len(jsonStr) - Len(ContentClose)) :
          jsonStr[k] \notin JsonStringBreakers
  THEN [ok |-> TRUE,
        content |-> SubSeq(jsonStr, Len(ContentOpen) + 1, Len(jsonStr) - Len(ContentClose))]
  ELSE IF jsonStr = NoContentPayload
       THEN [ok |-> TRUE, content |-> <<>>]
       ELSE [ok |-> FALSE, content |-> <<>>]

\* chunk.split('\n').filter(line => line.trim() !== '' && line.trim() !== 'data: [DONE]')
keptLine(line) ==
  WithValue(trim(line), LAMBDA trimmed : trimmed # <<>> /\ trimmed # DoneLine)

streamLines(chunk) == SelectSeq(split(chunk, {"\n"}), keptLine)

\* a variant of processLine that passes the delta, not the text so far, to
\* onStreamUpdate
processLineNotifiesDelta(acc, line) ==
  IF ~startsWith(line, DataPrefix) THEN acc
  ELSE WithValue(substring(line, 6), LAMBDA jsonStr :
       WithValue(parseContent(jsonStr), LAMBDA parsed :
         IF jsonStr = DonePayload \/ ~parsed.ok THEN acc
         ELSE IF parsed.content # <<>>
              THEN [fullAnswer |-> acc.fullAnswer \o parsed.content,
                    notifications |-> Append(acc.notifications, parsed.content),
                    deltas |-> Append(acc.deltas, parsed.content)]
              ELSE [acc EXCEPT !.deltas = Append(acc.deltas, parsed.content)]))

\* the body of the for loop of streamResponse on one line; acc holds
\* fullAnswer, the arguments onStreamUpdate was called with so far, and the
\* values of content the loop obtained so far
processLine(acc, line) ==
  IF ~startsWith(line, DataPrefix) THEN acc
  ELSE WithValue(substring(line, 6), LAMBDA jsonStr :
       WithValue(parseContent(jsonStr), LAMBDA parsed :
         IF jsonStr = DonePayload \/ ~parsed.ok THEN acc
         ELSE IF parsed.content # <<>>
              THEN [fullAnswer |-> acc.fullAnswer \o parsed.content,
                    notifications |-> Append(acc.notifications,
                                             acc.fullAnswer \o parsed.content),
                    deltas |-> Append(acc.deltas, parsed.content)]
              ELSE [acc EXCEPT !.deltas = Append(acc.deltas, parsed.content)]))

RECURSIVE processLines(_, _)
processLines(acc, lines) ==
  IF lines = <<>> THEN acc
  ELSE WithValue(processLine(acc, Head(lines)),
                 LAMBDA next : processLines(next, Tail(lines)))

\* one pass of the while loop of streamResponse on a chunk that was read
processChunk(acc, chunk) ==
  WithValue(streamLines(chunk), LAMBDA lines : processLines(acc, lines))

\* whether the chunk holds a 'data: [DONE]' line
hasDoneLine(chunk) ==
  WithValue(split(chunk, {"\n"}), LAMBDA lines :
    \E k \in 1..Len(lines) : trim(lines[k]) = DoneLine)

(***************************************************************************)
(* Responses of the server.                                                *)
(***************************************************************************)
contentLine(content) == DataPrefix \o ContentOpen \o content \o ContentClose

EventEnd == <<"\n", "\n">>

Hel == <<"H", "e", "l">>

Lo == <<"l", "o">>

Hello == Hel \o Lo

\* delta "Hel", delta "lo", [DONE]
BodyHello ==
  contentLine(Hel) \o EventEnd \o contentLine(Lo) \o EventEnd \o DoneLine \o EventEnd

\* an event without content, delta "Hel", [DONE], and a delta "lo" behind it
BodyDoneThenMore ==
  DataPrefix \o NoContentPayload \o EventEnd \o contentLine(Hel) \o EventEnd
    \o DoneLine \o EventEnd \o contentLine(Lo) \o EventEnd

\* a payload cut off behind its first characters, on which JSON.parse throws
MalformedPayload == <<"{","\"","c","h","o">>

MalformedLine == DataPrefix \o MalformedPayload

\* delta "Hel", a line with a malformed payload, delta "lo", [DONE]
BodyMalformed ==
  contentLine(Hel) \o EventEnd \o MalformedLine \o EventEnd
    \o contentLine(Lo) \o EventEnd \o DoneLine \o EventEnd

StreamBodies == {BodyHello, BodyDoneThenMore, BodyMalformed}

NoAnswerReceived == <<"N","o"," ","a","n","s","w","e","r"," ","r","e","c","e","i","v","e","d">>

\* what fetch can resolve with for a request: a non-OK response, or an OK
\* response whose body is an event stream (which the server may leave open
\* after the last event) when the request asked for one, and a chat
\* completion when it did not (without a choice, with a first choice whose
\* content is empty or absent, with one choice or two)
Responses(stream) ==
  {[ok |-> FALSE, status |-> "401", text |-> "Unauthorized"]}
  \cup (IF stream
        THEN [ok : {TRUE}, kind : {"event-stream"}, body : StreamBodies, closes : BOOLEAN]
        ELSE [ok : {TRUE}, kind : {"json"},
              choices : {<<>>, <<[message |-> [content |-> <<>>]]>>,
                         <<[message |-> [role |-> "assistant"]]>>,
                         <<[message |-> [content |-> Hello]]>>,
                         <<[message |-> [content |-> Hello]],
                           [message |-> [content |-> Lo]]>>}])


\* the responses fetch can resolve with that carry a non-OK status
NonOkResponses == {resp \in Responses(TRUE) \cup Responses(FALSE) : ~resp.ok}
(***************************************************************************)
(* OpenAIService.getAnswer: one record of requests per call. A record      *)
(* holds the options of the service instance (stream, hasCallback), the    *)
(* position of the call (phase), the part of the response body not yet     *)
(* read (rest) and the locals of streamResponse. live says that the        *)
(* callbacks of the call update a mounted AnswerDisplay. deltas, doneSeen   *)
(* and wholeLines record what was read, for the properties.                *)
(***************************************************************************)
newRequest(questionText, stream, hasCallback, live, clock) ==
  [question |-> questionText, stream |-> stream, hasCallback |-> hasCallback,
   live |-> live, phase |-> "fetching", posts |-> 1, startTime |-> clock,
   body |-> <<>>, rest |-> <<>>, closes |-> FALSE, reads |-> 0,
   fullAnswer |-> <<>>, notifications |-> <<>>, deltas |-> <<>>,
   doneSeen |-> FALSE, wholeLines |-> TRUE,
   answer |-> <<>>, responseTime |-> 0, failure |-> <<>>]

\* getAnswer: if (this.options.stream && this.options.onStreamUpdate)
streamingPath(req) == req.stream /\ req.hasCallback

terminal(req) == req.phase \in {"completed", "failed"}

\* the promise of getAnswer resolves; AnswerDisplay.getAnswer continues
\* behind its await (try and finally)
resolved(req, answer, clock) ==
  [req EXCEPT !.phase = "completed", !.answer = answer,
              !.responseTime = clock - req.startTime]

displayOnResolved(req, display, answer, clock) ==
  IF req.live
  THEN [display EXCEPT !.answer = answer, !.responseTime = clock - req.startTime,
                       !.isLoading = FALSE, !.isStreaming = FALSE]
  ELSE display

\* a variant of rejected that issues the request again
rejectedRetries(req, message) ==
  [req EXCEPT !.phase = "fetching", !.posts = req.posts + 1]

\* a variant of rejected that records the error and lets the call go on
rejectedKeepsGoing(req, message) ==
  [req EXCEPT !.failure = <<"Failed to get answer: ">> \o message]

\* the promise of getAnswer rejects (the catch block of getAnswer wraps the
\* message); AnswerDisplay.getAnswer continues in catch and finally
rejected(req, message) ==
  [req EXCEPT !.phase = "failed", !.failure = <<"Failed to get answer: ">> \o message]

\* a variant of displayOnRejected without the finally block
displayOnRejectedStaysLoading(req, display, message) ==
  IF req.live
  THEN [display EXCEPT !.error = <<"Error getting answer: ", "Failed to get answer: ">>
                                   \o message]
  ELSE display

displayOnRejected(req, display, message) ==
  IF req.live
  THEN [display EXCEPT !.error = <<"Error getting answer: ", "Failed to get answer: ">>
                                   \o message,
                       !.isLoading = FALSE, !.isStreaming = FALSE]
  ELSE display

\* onStreamUpdate of AnswerDisplay.getAnswer, called once per notification
displayOnStreamUpdate(req, display, partials) ==
  IF req.live /\ partials # <<>>
  THEN [display EXCEPT !.answer = partials[Len(partials)]]
  ELSE display

\* a variant of standardAnswer that falls back only when there is no choice
standardAnswerKeepsEmpty(choices) ==
  IF choices = <<>> THEN NoAnswerReceived
  ELSE IF "content" \notin DOMAIN choices[1].message THEN <<>>
       ELSE choices[1].message.content

\* standardResponse: response.choices[0]?.message?.content || 'No answer received'
standardAnswer(choices) ==
  IF choices = <<>> THEN NoAnswerReceived
  ELSE IF "content" \notin DOMAIN choices[1].message THEN NoAnswerReceived
  ELSE IF choices[1].message.content = <<>> THEN NoAnswerReceived
       ELSE choices[1].message.content

\* a variant of apiErrorMessage that leaves the status code out
apiErrorMessageWithoutStatus(resp) == <<"API error: ", resp.text>>

\* `API error: ${response.status} - ${errorText}`
apiErrorMessage(resp) == <<"API error: ", resp.status, " - ", resp.text>>

\* a caller other than AnswerDisplay constructs a service with an API key and
\* calls getAnswer; it awaits each call before the next, and keeps the result
\* of its latest call only
ServiceGetAnswer(stream, hasCallback) ==
  /\ \A r \in 1..Len(requests) : terminal(requests[r])
  /\ requests' = <<newRequest(TextMutexQ, stream, hasCallback, FALSE, now)>>
  /\ UNCHANGED <<voiceVars, now, answerDisplay, memo, pureVars>>

\* fetch resolves with resp
FetchResolved(r, resp) ==
  /\ r \in 1..Len(requests)
  /\ requests[r].phase = "fetching"
  /\ resp \in Responses(requests[r].stream)
  /\ LET req == requests[r]
     IN  IF ~resp.ok
         THEN /\ requests' = [requests EXCEPT ![r] = rejected(req, apiErrorMessage(resp))]
              /\ answerDisplay' = displayOnRejected(req, answerDisplay, apiErrorMessage(resp))
         ELSE IF streamingPath(req)
              THEN /\ requests' = [requests EXCEPT ![r] =
                                     [req EXCEPT !.phase = "reading", !.body = resp.body,
                                                 !.rest = resp.body,
                                                 !.closes = resp.closes]]
                   /\ UNCHANGED answerDisplay
              ELSE IF resp.kind = "json"
                   THEN /\ requests' = [requests EXCEPT ![r] =
                                          resolved(req, standardAnswer(resp.choices), now)]
                        /\ answerDisplay' = displayOnResolved(req, answerDisplay,
                                                              standardAnswer(resp.choices), now)
                   ELSE \* response.json() on an event stream
                        /\ requests' = [requests EXCEPT ![r] =
                                          rejected(req, <<"SyntaxError">>)]
                        /\ answerDisplay' = displayOnRejected(req, answerDisplay,
                                                              <<"SyntaxError">>)
  /\ UNCHANGED <<voiceVars, now, memo, pureVars>>

\* fetch rejects
FetchRejected(r) ==
  /\ r \in 1..Len(requests)
  /\ requests[r].phase = "fetching"
  /\ requests' = [requests EXCEPT ![r] = rejected(requests[r], <<"Failed to fetch">>)]
  /\ answerDisplay' = displayOnRejected(requests[r], answerDisplay, <<"Failed to fetch">>)
  /\ UNCHANGED <<voiceVars, now, memo, pureVars>>

\* the request after one pass of the while loop of streamResponse on the next
\* n characters of the body
afterChunk(req, n) ==
  WithValue(SubSeq(req.rest, 1, n), LAMBDA chunk :
  WithValue(processChunk([fullAnswer |-> req.fullAnswer,
                          notifications |-> req.notifications,
                          deltas |-> req.deltas], chunk), LAMBDA acc :
    [req EXCEPT !.rest = SubSeq(req.rest, n + 1, Len(req.rest)),
                !.reads = req.reads + 1,
                !.fullAnswer = acc.fullAnswer,
                !.notifications = acc.notifications,
                !.deltas = acc.deltas,
                !.doneSeen = req.doneSeen \/ hasDoneLine(chunk),
                !.wholeLines = req.wholeLines /\ chunk[n] = "\n"]))

\* reader.read() resolves with the next n characters of the body, and the
\* while loop of streamResponse runs once; the body arrives in at most
\* MaxChunks chunks
ReadChunk(r, n) ==
  /\ r \in 1..Len(requests)
  /\ requests[r].phase = "reading"
  /\ n \in 1..Len(requests[r].rest)
  /\ (n = Len(requests[r].rest) \/ requests[r].reads + 1 < MaxChunks)
  /\ requests' = [requests EXCEPT ![r] = afterChunk(requests[r], n)]
  /\ answerDisplay' =
       displayOnStreamUpdate(requests[r], answerDisplay,
                             SubSeq(requests'[r].notifications,
                                    Len(requests[r].notifications) + 1,
                                    Len(requests'[r].notifications)))
  /\ UNCHANGED <<voiceVars, now, memo, pureVars>>

\* reader.read() resolves with done: the server closed the stream behind the
\* body
ReadDone(r) ==
  /\ r \in 1..Len(requests)
  /\ requests[r].phase = "reading"
  /\ requests[r].rest = <<>>
  /\ requests[r].closes
  /\ requests' = [requests EXCEPT ![r] = resolved(requests[r], requests[r].fullAnswer, now)]
  /\ answerDisplay' = displayOnResolved(requests[r], answerDisplay,
                                        requests[r].fullAnswer, now)
  /\ UNCHANGED <<voiceVars, now, memo, pureVars>>

\* reader.read() rejects
ReadError(r) ==
  /\ r \in 1..Len(requests)
  /\ requests[r].phase = "reading"
  /\ requests' = [requests EXCEPT ![r] = rejected(requests[r], <<"network error">>)]
  /\ answerDisplay' = displayOnRejected(requests[r], answerDisplay, <<"network error">>)
  /\ UNCHANGED <<voiceVars, now, memo, pureVars>>

(***************************************************************************)
(* AnswerDisplay handlers.                                                 *)
(***************************************************************************)

\* the constructor of OpenAIService: it throws without an API key
constructor(key) ==
  IF key = <<>> THEN [ok |-> FALSE, message |-> <<"OpenAI API key is required">>]
  ELSE [ok |-> TRUE, message |-> <<>>]

\* a variant of getAnswerStart without the check of question and apiKey
getAnswerStartUnguarded(display, hasQuestion, key) ==
  [display EXCEPT !.isLoading = TRUE, !.isStreaming = TRUE,
                  !.error = <<>>, !.answer = <<>>]

\* AnswerDisplay.getAnswer up to its await
getAnswerStart(display, hasQuestion, key) ==
  IF ~hasQuestion \/ key = <<>>
  THEN [display EXCEPT !.error = <<"API key is required to get answers">>]
  ELSE [display EXCEPT !.isLoading = TRUE, !.isStreaming = TRUE,
                       !.error = <<>>, !.answer = <<>>]

\* the calls of AnswerDisplay.getAnswer behind its check: the service is
\* constructed (stream: true, onStreamUpdate given) and getAnswer called on it
getAnswerRequests(reqs, hasQuestion, key, questionText, clock) ==
  IF ~hasQuestion \/ key = <<>> THEN reqs
  ELSE IF ~constructor(key).ok THEN reqs
       ELSE Append(reqs, newRequest(questionText, TRUE, TRUE, TRUE, clock))

\* whether the Get Answer button is disabled: disabled={isLoading || !apiKey}
buttonDisabledWithoutLoading(display, key) == key = <<>>

buttonDisabled(display, key) == display.isLoading \/ key = <<>>

\* onClick of the Get Answer button, while fewer than limit calls were made
GetAnswerUpTo(limit) ==
  /\ answerMounted(detectedQuestions, currentQuestionIndex)
  /\ ~buttonDisabled(answerDisplay, apiKey)
  /\ Len(requests) < limit
  /\ answerDisplay' = getAnswerStart(answerDisplay, TRUE, apiKey)
  /\ requests' = getAnswerRequests(requests, TRUE, apiKey,
                                   detectedQuestions[currentQuestionIndex + 1].text, now)
  /\ UNCHANGED <<voiceVars, now, memo, pureVars>>

\* onClick of the Get Answer button (disabled when isLoading || !apiKey)
GetAnswer ==
  /\ answerMounted(detectedQuestions, currentQuestionIndex)
  /\ ~buttonDisabled(answerDisplay, apiKey)
  /\ Len(requests) < MaxRequests
  /\ answerDisplay' = getAnswerStart(answerDisplay, TRUE, apiKey)
  /\ requests' = getAnswerRequests(requests, TRUE, apiKey,
                                   detectedQuestions[currentQuestionIndex + 1].text, now)
  /\ UNCHANGED <<voiceVars, now, memo, pureVars>>

\* AnswerDisplay.getAnswer called whatever the button shows (by a caller that
\* holds the handler)
GetAnswerCalled ==
  /\ answerMounted(detectedQuestions, currentQuestionIndex)
  /\ apiKey = <<>> \/ Len(requests) < MaxRequests
  /\ answerDisplay' = getAnswerStart(answerDisplay, TRUE, apiKey)
  /\ requests' = getAnswerRequests(requests, TRUE, apiKey,
                                   detectedQuestions[currentQuestionIndex + 1].text, now)
  /\ UNCHANGED <<voiceVars, now, memo, pureVars>>

\* the effect of AnswerDisplay with dependency [apiKey]
displayOnApiKey(display, key) ==
  IF key = <<>> THEN display
  ELSE [display EXCEPT !.answer = <<>>, !.error = <<>>, !.responseTime = 0]

\* onChange of the API key input (disabled while listening)
SetApiKey(key) ==
  /\ ~isListening
  /\ key # apiKey
  /\ apiKey' = key
  /\ answerDisplay' = IF answerMounted(detectedQuestions, currentQuestionIndex)
                      THEN displayOnApiKey(answerDisplay, key)
                      ELSE answerDisplay
  /\ UNCHANGED <<isListening, transcript, interimTranscript, source, error,
                 detectedQuestions, currentQuestionIndex, processedSegments,
                 recognition, mountClosure, pendingCaptures, mediaStream, now,
                 requests, memo, pureVars>>

(***************************************************************************)
(* Specifications.                                                         *)
(***************************************************************************)

\* VoiceUI: listening, recognition results, selection and the clear buttons
Next ==
  \/ \E e \in Events : HandleRecognitionResult(e)
  \/ \E index \in 0..MaxSegments : SelectQuestion(index)
  \/ ClearTranscript
  \/ ClearQuestions
  \/ ClearAll
  \/ StartListening
  \/ StopListening
  \/ RecognitionEnd
  \/ Tick

Spec == Init /\ [][Next]_vars

\* chunk sizes that end behind an event of the body
eventChunks(rest) ==
  {n \in 1..Len(rest) : endsWith(SubSeq(rest, 1, n), EventEnd)
                         /\ ~startsWith(SubSeq(rest, n + 1, Len(rest)), <<"\n">>)}

\* the chunk sizes where AnswerDisplay is observed: a read delivers one event
\* of the body, the last of the MaxChunks reads what is left of it
answerChunks(req) ==
  IF req.reads + 1 < MaxChunks
  THEN {n \in eventChunks(req.rest) : \A k \in eventChunks(req.rest) : n <= k}
  ELSE {Len(req.rest)} \ {0}

\* the responses delivered where AnswerDisplay is observed
AnswerResponses ==
  {resp \in Responses(TRUE) : resp.ok => (resp.body = BodyHello /\ resp.closes)}

\* the values typed into the API key input where AnswerDisplay is observed
AnswerKeys == {<<>>, <<"s","k","-","1">>}

\* VoiceUI with AnswerDisplay and the requests it starts
NextAnswer ==
  \/ \E e \in AnswerEvents : HandleRecognitionResult(e)
  \/ \E index \in 0..MaxSegments : SelectQuestion(index)
  \/ ClearQuestions
  \/ StartListening
  \/ StopListening
  \/ \E key \in AnswerKeys : SetApiKey(key)
  \/ GetAnswer
  \/ \E r \in DOMAIN requests : \E resp \in AnswerResponses : FetchResolved(r, resp)
  \/ \E r \in DOMAIN requests : \E n \in answerChunks(requests[r]) : ReadChunk(r, n)
  \/ \E r \in DOMAIN requests : ReadDone(r)
  \/ \E r \in DOMAIN requests : ReadError(r)

SpecAnswer == Init /\ [][NextAnswer]_vars

\* the characters behind which a read of the stream ends in NextStream: a
\* chunk ends behind a line, or inside 'data: ' or a payload
ChunkEndChars == {"\n", " ", "l"}

streamChunks(rest) == {n \in 1..Len(rest) : rest[n] \in ChunkEndChars}

\* OpenAIService called directly
NextStream ==
  \/ \E stream, hasCallback \in BOOLEAN : ServiceGetAnswer(stream, hasCallback)
  \/ \E r \in DOMAIN requests : \E resp \in Responses(TRUE) \cup Responses(FALSE) :
       FetchResolved(r, resp)
  \/ \E r \in DOMAIN requests : FetchRejected(r)
  \/ \E r \in DOMAIN requests : \E n \in streamChunks(requests[r].rest) \cup {Len(requests[r].rest)} :
       ReadChunk(r, n)
  \/ \E r \in DOMAIN requests : ReadDone(r)
  \/ \E r \in DOMAIN requests : ReadError(r)
  \/ Tick

SpecStream == Init /\ [][NextStream]_vars


\* the indexes selectQuestion is called with in NextDirect
SelectIndexes == -1..MaxSegments

\* the handlers selectQuestion and AnswerDisplay.getAnswer called directly,
\* whatever the rendered controls allow
NextDirect ==
  \/ \E e \in AnswerEvents : HandleRecognitionResult(e)
  \/ \E index \in SelectIndexes : SelectQuestionCalled(index)
  \/ StartListening
  \/ StopListening
  \/ \E key \in ApiKeys \cup {<<>>} : SetApiKey(key)
  \/ GetAnswerCalled

SpecDirect == Init /\ [][NextDirect]_vars

\* SpecStream where a fetch that was issued settles, and a stream that is
\* being read delivers its next chunk and, when the server closes it, its end
SpecStreamFair ==
  /\ SpecStream
  /\ WF_vars(\E r \in DOMAIN requests :
               \/ \E resp \in Responses(TRUE) \cup Responses(FALSE) : FetchResolved(r, resp)
               \/ FetchRejected(r))
  /\ WF_vars(\E r \in DOMAIN requests :
               \E n \in streamChunks(requests[r].rest) \cup {Len(requests[r].rest)} :
                 ReadChunk(r, n))
  /\ WF_vars(\E r \in DOMAIN requests : ReadDone(r))

CaptureOutcomes == {"granted", "no-audio", "rejected"}

\* VoiceUI: the audio source, the capture engine and its events
NextListen ==
  \/ \E s \in {"microphone", "system"} : SetSource(s)
  \/ StartListening
  \/ \E outcome \in CaptureOutcomes : SystemCaptureSettled(outcome)
  \/ StopListening
  \/ \E e \in ListenEvents : HandleRecognitionResult(e)
  \/ \E code \in RecognitionErrorCodes : RecognitionError(code)
  \/ RecognitionEnd

SpecListen == Init /\ [][NextListen]_vars
(***************************************************************************)
(* Properties of AnswerDisplay and of the streaming client.                *)
(***************************************************************************)

\* the question AnswerDisplay is rendered for, as a sequence of at most one
selectedQuestion(questions, index) ==
  IF answerMounted(questions, index) THEN <<questions[index + 1]>> ELSE <<>>

\* C7: whenever the selected question or the API key changes, the displayed
\* answer, error and response time are cleared, and a step of a request that
\* was started for a question other than the selected one leaves the display
\* as it is.
C7_SessionDiscarded ==
  [][/\ (\/ selectedQuestion(detectedQuestions', currentQuestionIndex')
              # selectedQuestion(detectedQuestions, currentQuestionIndex)
         \/ apiKey' # apiKey)
        => /\ answerDisplay'.answer = <<>>
           /\ answerDisplay'.error = <<>>
           /\ answerDisplay'.responseTime = 0
     /\ \A r \in DOMAIN requests :
          (/\ r \in DOMAIN requests'
           /\ requests'[r] # requests[r]
           /\ \A k \in DOMAIN selectedQuestion(detectedQuestions, currentQuestionIndex) :
                selectedQuestion(detectedQuestions, currentQuestionIndex)[k].text
                  # requests[r].question)
          => answerDisplay' = answerDisplay]_vars

nonEmptyDelta(content) == content # <<>>

\* the accumulator of streamResponse before the first read
EmptyAccumulator == [fullAnswer |-> <<>>, notifications |-> <<>>, deltas |-> <<>>]

\* C8: in a streaming request the k-th partial notification is the
\* concatenation of the first k non-empty content deltas in arrival order,
\* the final answer of a completed request is the last notification, and
\* the lines delta "Hel", delta "lo", [DONE] give the notifications "Hel",
\* "Hello" and the final answer "Hello".
C8_PartialNotifications ==
  \A r \in DOMAIN requests :
    streamingPath(requests[r]) =>
      LET req == requests[r]
          arrived == SelectSeq(req.deltas, nonEmptyDelta)
      IN  /\ Len(req.notifications) = Len(arrived)
          /\ \A k \in 1..Len(arrived) :
               req.notifications[k] = concat(SubSeq(arrived, 1, k))
          /\ req.phase = "completed" =>
               req.answer = IF req.notifications = <<>> THEN <<>>
                            ELSE req.notifications[Len(req.notifications)]
          /\ (req.body = BodyHello /\ req.wholeLines /\ req.rest = <<>>) =>
               /\ req.notifications = <<Hel, Hello>>
               /\ req.phase = "completed" => req.answer = Hello

C8_Witness ==
  \E r \in DOMAIN requests :
    /\ streamingPath(requests[r])
    /\ requests[r].body = BodyHello
    /\ requests[r].reads = 2
    /\ requests[r].phase = "completed"
    /\ requests[r].notifications = <<Hel, Hello>>
    /\ requests[r].answer = Hello

\* the lines of a body in front of its first 'data: [DONE]' line
RECURSIVE linesBeforeDone(_)
linesBeforeDone(lines) ==
  IF lines = <<>> THEN <<>>
  ELSE IF trim(Head(lines)) = DoneLine THEN <<>>
       ELSE <<Head(lines)>> \o linesBeforeDone(Tail(lines))

\* the content deltas of the well-formed 'data: ' lines among lines, in order
lineDeltas(lines) == processLines(EmptyAccumulator, SelectSeq(lines, keptLine)).deltas

\* C9: once a 'data: [DONE]' line has been read, the request is completed
\* with the buffer accumulated up to that line (whether or not the server
\* closes the stream), and no content delta of a later line or chunk is
\* appended or notified.
C9_DoneEndsLoop ==
  \A r \in DOMAIN requests :
    (/\ streamingPath(requests[r])
     /\ requests[r].doneSeen
     /\ requests[r].wholeLines
     /\ requests[r].phase # "failed")
    => /\ requests[r].phase = "completed"
       /\ requests[r].fullAnswer =
            concat(lineDeltas(linesBeforeDone(split(requests[r].body, {"\n"}))))
       /\ requests[r].answer = requests[r].fullAnswer

\* C10: the final answer of a completed streaming request is the in-order
\* concatenation of the content deltas of all well-formed 'data: ' lines of
\* the response body, however the body was split into read chunks.
C10_ChunkingIndependent ==
  \A r \in DOMAIN requests :
    (/\ streamingPath(requests[r])
     /\ requests[r].phase = "completed")
    => requests[r].answer = concat(lineDeltas(split(requests[r].body, {"\n"})))

(***************************************************************************)
(* Properties of the error paths of the client and of the answer surface.  *)
(***************************************************************************)

\* the request keeps what it was while it is the same call (a caller's next
\* call starts in phase "fetching")
sameCall(r) == r \in DOMAIN requests' /\ requests'[r].phase # "fetching"

\* C11: a non-OK HTTP response ends the request failed with a message that
\* holds the status code and the response body, on the streaming and on the
\* standard path, and no partial notification is ever emitted for it.
C11_NonOkFails ==
  [][\A r \in DOMAIN requests :
       /\ \A resp \in NonOkResponses :
            FetchResolved(r, resp) =>
              /\ requests'[r].phase = "failed"
              /\ \E k \in DOMAIN requests'[r].failure :
                   requests'[r].failure[k] = resp.status
              /\ \E k \in DOMAIN requests'[r].failure :
                   requests'[r].failure[k] = resp.text
              /\ requests'[r].notifications = <<>>
              /\ requests'[r].posts = requests[r].posts
       /\ (requests[r].phase = "failed" /\ sameCall(r)) =>
            requests'[r] = requests[r]]_vars

C11_Witness ==
  \E r \in DOMAIN requests :
    /\ streamingPath(requests[r])
    /\ requests[r].phase = "failed"
    /\ requests[r].failure =
         <<"Failed to get answer: ", "API error: ", "401", " - ", "Unauthorized">>
    /\ requests[r].notifications = <<>>

\* C12: without an API key AnswerDisplay.getAnswer reports an error and
\* returns without constructing a client, so no request is issued; and the
\* constructor of the client throws when it is given no key.
C12_NoKeyNoRequest ==
  [][/\ (GetAnswerCalled /\ apiKey = <<>>) =>
          /\ answerDisplay'.error = <<"API key is required to get answers">>
          /\ answerDisplay'.isLoading = answerDisplay.isLoading
          /\ requests' = requests
     /\ ~constructor(<<>>).ok
     /\ constructor(<<>>).message # <<>>]_vars

C12_Witness ==
  /\ answerMounted(detectedQuestions, currentQuestionIndex)
  /\ apiKey = <<>>
  /\ answerDisplay.error = <<"API key is required to get answers">>
  /\ ~answerDisplay.isLoading
  /\ requests = <<>>

SampleAccumulators ==
  {EmptyAccumulator,
   [fullAnswer |-> Hel, notifications |-> <<Hel>>, deltas |-> <<Hel>>]}

\* C13: a 'data: ' line whose payload is not valid JSON is skipped: it
\* leaves the buffer and the notifications as they are, the well-formed
\* lines behind it are processed, and the request does not fail on it and
\* completes with the content of the well-formed lines.
C13_MalformedSkipped ==
  /\ \A acc \in SampleAccumulators : processLine(acc, MalformedLine) = acc
  /\ \A r \in DOMAIN requests :
       (/\ streamingPath(requests[r])
        /\ requests[r].body = BodyMalformed
        /\ requests[r].wholeLines)
       => /\ requests[r].failure \in {<<>>, <<"Failed to get answer: ", "network error">>}
          /\ requests[r].rest = <<>> =>
               /\ requests[r].fullAnswer = Hello
               /\ requests[r].notifications = <<Hel, Hello>>
          /\ requests[r].phase = "completed" => requests[r].answer = Hello

C13_Witness ==
  \E r \in DOMAIN requests :
    /\ streamingPath(requests[r])
    /\ requests[r].body = BodyMalformed
    /\ requests[r].wholeLines
    /\ requests[r].reads = 2
    /\ requests[r].phase = "completed"
    /\ requests[r].answer = Hello

\* the request has exactly one of the two outcomes, or none yet
oneOutcome(req) ==
  /\ req.phase = "completed" => req.failure = <<>>
  /\ req.phase = "failed" => (req.failure # <<>> /\ req.answer = <<>>)
  /\ ~terminal(req) => (req.failure = <<>> /\ req.answer = <<>>)

\* the call is under way and its stream, once it is read, ends: the request
\* waits for its response, or the response has arrived and the server closes
\* the body
streamEnds(r) ==
  /\ r \in DOMAIN requests
  /\ \/ requests[r].phase = "fetching"
     \/ requests[r].phase = "reading" /\ requests[r].closes

\* the call has its outcome, or reads a stream the server leaves open
settledOrOpen(r) ==
  /\ r \in DOMAIN requests
  /\ \/ terminal(requests[r])
     \/ requests[r].phase = "reading" /\ ~requests[r].closes

\* C14: a getAnswer call whose response arrives and whose stream ends reaches
\* one terminal outcome, completed or failed and never both, and after it the
\* call changes nothing any more: no partial notification follows.
C14_OneTerminalOutcome ==
  /\ [](\A r \in DOMAIN requests : oneOutcome(requests[r]))
  /\ [][\A r \in DOMAIN requests :
          (terminal(requests[r]) /\ sameCall(r)) => requests'[r] = requests[r]]_vars
  /\ \A r \in 1..MaxRequests : streamEnds(r) ~> settledOrOpen(r)

C14_Witness ==
  \E r \in DOMAIN requests :
    /\ streamingPath(requests[r])
    /\ requests[r].closes
    /\ requests[r].phase = "completed"
    /\ requests[r].notifications # <<>>
    /\ requests[r].failure = <<>>

\* a request of the mounted AnswerDisplay that has no outcome yet
liveAndPending(req) == req.live /\ ~terminal(req)

\* C15: when a request started from AnswerDisplay is completed or failed,
\* the display is no longer loading or streaming, and on failure a non-empty
\* error is set; the display is loading or streaming only while a request of
\* its own is under way.
C15_NoLoadingAfterOutcome ==
  [][/\ \A r \in DOMAIN requests :
          (/\ r \in DOMAIN requests'
           /\ liveAndPending(requests[r])
           /\ terminal(requests'[r]))
          => /\ ~answerDisplay'.isLoading
             /\ ~answerDisplay'.isStreaming
             /\ requests'[r].phase = "failed" => answerDisplay'.error # <<>>
     /\ (answerDisplay'.isLoading \/ answerDisplay'.isStreaming)
          => \E r \in DOMAIN requests' : liveAndPending(requests'[r])]_vars

C15_Witness ==
  \E r \in DOMAIN requests :
    /\ requests[r].live
    /\ requests[r].phase = "failed"
    /\ requests[r].reads > 0
    /\ ~answerDisplay.isLoading
    /\ ~answerDisplay.isStreaming
    /\ answerDisplay.error # <<>>

\* C16: each getAnswer call issues exactly one HTTP POST, whatever its
\* outcome (success, non-OK status, network error, read error in the middle
\* of the stream): a request is never issued again.
C16_SinglePost ==
  \A r \in DOMAIN requests : requests[r].posts = 1

C16_Witness ==
  \E r \in DOMAIN requests :
    /\ streamingPath(requests[r])
    /\ requests[r].phase = "failed"
    /\ requests[r].reads > 0
    /\ requests[r].notifications # <<>>
    /\ requests[r].posts = 1

\* C17: when the capture engine fires its end-of-session event while the
\* system is listening (startListening was called, and neither stopListening
\* nor a capture error came since), the engine is started again.
C17_EndWhileListeningRestarts ==
  [][(RecognitionEnd /\ isListening) => recognition' = "running"]_vars

\* C18: after a capture error or after stopListening, an end-of-session
\* event does not start the capture engine again.
C18_NoRestartAfterErrorOrStop ==
  [][(RecognitionEnd /\ ~isListening) => recognition' = "idle"]_vars

C18_Witness ==
  /\ error = recognitionErrorMessage("not-allowed")
  /\ ~isListening
  /\ recognition = "idle"

\* C19: every entry of the registry was created from a candidate whose
\* classification confidence is greater than 0.6, and carries a defined
\* category and that confidence.
C19_EntriesAboveThreshold ==
  \A k \in 1..Len(detectedQuestions) :
    LET question == detectedQuestions[k]
        detectionResult == detectTechnicalQuestion(question.text)
    IN  /\ question.confidence > TechnicalThreshold
        /\ question.category # NoCategory
        /\ question.confidence = detectionResult.confidence
        /\ question.category = detectionResult.category

\* a fragment with a candidate below the threshold and one above it left
\* the one above it in the registry
C19_Witness ==
  /\ \E k \in 1..Len(processedSegments) : processedSegments[k].text = TextSmallTalk
  /\ Len(detectedQuestions) = 1
  /\ detectedQuestions[1].confidence > TechnicalThreshold
  /\ detectedQuestions[1].category # NoCategory

(***************************************************************************)
(* Properties of the clear operations.                                     *)
(***************************************************************************)

\* C21: clearQuestions and clearAll leave the registry empty and the
\* selected index equal to -1, whatever the state before.
C21_ClearEmptiesRegistry ==
  [][(ClearQuestions \/ ClearAll) =>
       /\ detectedQuestions' = <<>>
       /\ currentQuestionIndex' = -1]_vars

\* the registry was cleared on its own: the segments of the fragments that
\* filled it are still recorded
C21_Witness ==
  /\ Len(processedSegments) = MaxSegments
  /\ detectedQuestions = <<>>
  /\ currentQuestionIndex = -1

\* C22: clearTranscript empties the processed segments and leaves the
\* registry and the selected index as they are; clearQuestions leaves the
\* processed segments as they are.
C22_ClearsDecoupled ==
  [][/\ ClearTranscript =>
          /\ processedSegments' = <<>>
          /\ detectedQuestions' = detectedQuestions
          /\ currentQuestionIndex' = currentQuestionIndex
     /\ ClearQuestions => processedSegments' = processedSegments]_vars

\* the transcript was cleared on its own: the registry still holds the
\* questions of the fragments
C22_Witness ==
  /\ transcript = <<>>
  /\ processedSegments = <<>>
  /\ Len(detectedQuestions) > 0
  /\ currentQuestionIndex >= 0

(***************************************************************************)
(* The pure functions observed on their own: calculateSimilarity, the      *)
(* detector and extractQuestions applied to arguments drawn at the start.  *)
(***************************************************************************)
\* the longest of the strings built from TextAlphabet
MaxTextLength == 2

\* "what is a function in javascript?"
TextFunctionJs ==
  <<"w","h","a","t"," ","i","s"," ","a"," ","f","u","n","c","t",
    "i","o","n"," ","i","n"," ","j","a","v","a","s","c","r","i",
    "p","t","?">>

\* "what is a hash map?"
TextHashMap ==
  <<"w","h","a","t"," ","i","s"," ","a"," ","h","a","s","h"," ",
    "m","a","p","?">>

\* "nice weather today"
TextWeather ==
  <<"n","i","c","e"," ","w","e","a","t","h","e","r"," ","t","o",
    "d","a","y">>

\* "I need help with docker. What is kubernetes?"
TextDocker ==
  <<"I"," ","n","e","e","d"," ","h","e","l","p"," ","w","i","t",
    "h"," ","d","o","c","k","e","r","."," ","W","h","a","t"," ",
    "i","s"," ","k","u","b","e","r","n","e","t","e","s","?">>

\* "I need help with docker"
TextNeedHelp ==
  <<"I"," ","n","e","e","d"," ","h","e","l","p"," ","w","i","t",
    "h"," ","d","o","c","k","e","r">>

\* "What is kubernetes?"
TextKubernetes ==
  <<"W","h","a","t"," ","i","s"," ","k","u","b","e","r","n","e",
    "t","e","s","?">>

\* "docker kubernetes jenkins terraform"
TextFourKeywords ==
  <<"d","o","c","k","e","r"," ","k","u","b","e","r","n","e","t",
    "e","s"," ","j","e","n","k","i","n","s"," ","t","e","r","r",
    "a","f","o","r","m">>

\* "docker kubernetes jenkins"
TextThreeKeywords ==
  <<"d","o","c","k","e","r"," ","k","u","b","e","r","n","e","t",
    "e","s"," ","j","e","n","k","i","n","s">>

\* "docker and kubernetes"
TextTwoKeywords ==
  <<"d","o","c","k","e","r"," ","a","n","d"," ","k","u","b","e",
    "r","n","e","t","e","s">>

\* "what is a firewall"
TextFirewall ==
  <<"w","h","a","t"," ","i","s"," ","a"," ","f","i","r","e","w",
    "a","l","l">>

\* "how to use react with javascript"
TextReactJs ==
  <<"h","o","w"," ","t","o"," ","u","s","e"," ","r","e","a","c",
    "t"," ","w","i","t","h"," ","j","a","v","a","s","c","r","i",
    "p","t">>

\* "how are you?"
TextHowAreYou ==
  <<"h","o","w"," ","a","r","e"," ","y","o","u","?">>

\* "compare css and sql?"
TextCssSql ==
  <<"c","o","m","p","a","r","e"," ","c","s","s"," ","a","n","d",
    " ","s","q","l","?">>

\* "what is css"
TextCss ==
  <<"w","h","a","t"," ","i","s"," ","c","s","s">>

\* "What is css? Document the api"
TextDocumentApi ==
  <<"W","h","a","t"," ","i","s"," ","c","s","s","?"," ","D","o",
    "c","u","m","e","n","t"," ","t","h","e"," ","a","p","i">>

\* "What is css? Tell us how"
TextTellHow ==
  <<"W","h","a","t"," ","i","s"," ","c","s","s","?"," ","T","e",
    "l","l"," ","u","s"," ","h","o","w">>

\* a sentence without starter, of the given length
textOfLength(n) == [i \in 1..n |-> "x"]

\* the longest text that is its own fallback candidate, and the shortest
\* that is not
TextBelowFallback == textOfLength(FallbackMaxLength - 1)

TextAtFallback == textOfLength(FallbackMaxLength)

\* an utterance of spaces
TextBlank == <<" ", " ">>

\* "sql?"
TextSql ==
  <<"s","q","l","?">>

\* "Why? what is css?"
TextWhyCss ==
  <<"W","h","y","?"," ","w","h","a","t"," ","i","s"," ","c","s",
    "s","?">>

\* "i need "
TextINeed ==
  <<"i"," ","n","e","e","d"," ">>

\* " docker kubernetes jenkins"
TextThreeTools ==
  <<" ","d","o","c","k","e","r"," ","k","u","b","e","r","n","e",
    "t","e","s"," ","j","e","n","k","i","n","s">>

\* a request without starter and too long for the fallback of extractQuestions
TextLongRequest == TextINeed \o TextAtFallback \o TextThreeTools

\* the texts given to the detector and to extractQuestions
DetectorTexts ==
  {TextFunctionJs, TextHashMap, TextWeather, TextDocker, TextFourKeywords,
   TextThreeKeywords, TextTwoKeywords, TextFirewall, TextReactJs, TextHowAreYou,
   TextCssSql, TextDocumentApi, TextTellHow, TextBelowFallback, TextAtFallback,
   TextBlank, TextSql, TextWhyCss, TextLongRequest}

\* the characters of the short strings: a letter in both cases and another
TextAlphabet == {"a", "A", "b"}

\* every string over TextAlphabet of length n
RECURSIVE stringsOfLength(_)
stringsOfLength(n) ==
  IF n = 0 THEN {<<>>}
  ELSE {Append(s, c) : s \in stringsOfLength(n - 1), c \in TextAlphabet}

ShortStrings == UNION {stringsOfLength(n) : n \in 0..MaxTextLength}

\* the texts compared with each other
ComparedTexts == ShortStrings \cup {TextMutexQ, TextMutex, TextCssCaps, TextCss}

\* the arguments of the pure functions: two texts to compare, or one text
PureArgs ==
  [a : ComparedTexts, b : ComparedTexts] \cup [a : DetectorTexts, b : {<<>>}]

PureMemoValue ==
  [ toAnalyze  |-> [f \in {} |-> <<>>],
    detection  |-> [t \in DetectorTexts \cup ComparedTexts |->
                      detectTechnicalQuestion(t)],
    similarity |-> [p \in {} |-> [num |-> 1, den |-> 1]] ]

InitPure ==
  /\ InitVoiceUI
  /\ now = 0
  /\ answerDisplay = InitialAnswerDisplay
  /\ requests = <<>>
  /\ memo = PureMemoValue
  /\ args \in PureArgs
  /\ returned = NotCalled

\* calculateSimilarity(a, b)
CalculateSimilarity ==
  /\ returned' = [fn |-> "calculateSimilarity",
                  value |-> calculateSimilarity(args.a, args.b)]
  /\ UNCHANGED <<voiceVars, now, answerDisplay, requests, memo, args>>

\* detectTechnicalQuestion(a)
DetectTechnicalQuestion ==
  /\ returned' = [fn |-> "detectTechnicalQuestion", value |-> detectionOf(args.a)]
  /\ UNCHANGED <<voiceVars, now, answerDisplay, requests, memo, args>>

\* determineTechnicalDomain(keywordMatches) for the keywords found in a
DetermineTechnicalDomain ==
  /\ returned' = [fn |-> "determineTechnicalDomain",
                  value |-> determineTechnicalDomain(detectionOf(args.a).detectedKeywords)]
  /\ UNCHANGED <<voiceVars, now, answerDisplay, requests, memo, args>>

\* extractQuestions(a)
ExtractQuestions ==
  /\ returned' = [fn |-> "extractQuestions", value |-> extractQuestions(args.a)]
  /\ UNCHANGED <<voiceVars, now, answerDisplay, requests, memo, args>>

\* the analyzeQuestion calls of processNewSpeechSegment(a), in call order
TextsToAnalyze ==
  /\ returned' = [fn |-> "textsToAnalyze", value |-> textsToAnalyze(args.a)]
  /\ UNCHANGED <<voiceVars, now, answerDisplay, requests, memo, args>>

NextPure ==
  \/ CalculateSimilarity
  \/ DetectTechnicalQuestion
  \/ DetermineTechnicalDomain
  \/ ExtractQuestions
  \/ TextsToAnalyze

SpecPure == InitPure /\ [][NextPure]_vars

(***************************************************************************)
(* The detector, the extraction and the similarity as documented.          *)
(***************************************************************************)
\* the distinct keywords of all vocabularies that match a text
matchedKeywords(text) ==
  WithValue(toLowerCase(trim(text)), LAMBDA cleanText :
    {kw \in seqRange(allKeywords) : keywordRegexTest(kw, cleanText)})

\* a question pattern matches a text
patternMatches(text) == hasQuestionPattern(toLowerCase(trim(text)))

\* min(0.95, base + min(0.15 * k, 0.45)), in hundredths
documentedConfidence(hasPattern, k) ==
  Min2(ConfidenceCap,
       (IF hasPattern THEN BaseQuestionLike ELSE BaseNotQuestionLike)
         + Min2(KeywordWeight * k, KeywordWeightCap))

classified == returned.fn = "detectTechnicalQuestion"

C24_TechnicalIffAboveThreshold ==
  classified =>
    /\ returned.value.isTechnical <=> returned.value.confidence > TechnicalThreshold
    /\ returned.value.category # NoCategory <=> returned.value.isTechnical

C24_Witness ==
  /\ classified
  /\ args.a = TextTwoKeywords
  /\ Len(returned.value.detectedKeywords) = 2
  /\ ~returned.value.isTechnical
  /\ returned.value.category = NoCategory

\* the matched keywords listed in the vocabulary of domain d
documentedCount(d, matched) ==
  Cardinality(matched \cap seqRange(technicalKeywords[d].keywords))

\* the first domain in enumeration order with the most matched keywords,
\* General when nothing matched
documentedDomain(text) ==
  WithValue(matchedKeywords(text), LAMBDA matched :
    IF matched = {} THEN GeneralDomain
    ELSE LET Domains == 1..Len(technicalKeywords)
             top == CHOOSE d \in Domains :
                      /\ \A e \in Domains :
                           documentedCount(e, matched) <= documentedCount(d, matched)
                      /\ \A e \in 1..(d - 1) :
                           documentedCount(e, matched) < documentedCount(d, matched)
         IN  technicalKeywords[top].domain)

\* C25: the domain chosen is the first in enumeration order among those whose
\* vocabulary holds the most matched keywords, a keyword counting for every
\* vocabulary that lists it; with no matched keyword it is General, count 0.
C25_DomainWithMostKeywords ==
  /\ returned.fn = "determineTechnicalDomain" =>
       /\ returned.value.category = documentedDomain(args.a)
       /\ matchedKeywords(args.a) = {} =>
            /\ returned.value.category = GeneralDomain
            /\ returned.value.keywordCount = 0
  /\ (classified /\ returned.value.isTechnical) =>
       returned.value.category = documentedDomain(args.a)

C25_Witness ==
  /\ returned.fn = "determineTechnicalDomain"
  /\ args.a = TextFirewall
  /\ returned.value.category = "networking"
  /\ returned.value.keywordCount = 1

\* C26: extractQuestions("I need help with docker. What is kubernetes?")
\* returns "I need help with docker" and "What is kubernetes?", in this order.
C26_ExtractTwoCandidates ==
  (returned.fn = "extractQuestions" /\ args.a = TextDocker) =>
    returned.value = <<TextNeedHelp, TextKubernetes>>

\* C27: "what is a hash map?" is classified technical, in the category
\* Programming, with a confidence of at least 0.6.
C27_HashMapProgramming ==
  (classified /\ args.a = TextHashMap) =>
    /\ returned.value.isTechnical
    /\ returned.value.category = "programming"
    /\ returned.value.confidence >= TechnicalThreshold

\* C28: a text matching no question pattern and no keyword gets confidence
\* 0.2 and is not technical; a text is technical exactly when a pattern and
\* at least one keyword match, or at least three keywords match.
C28_TechnicalCases ==
  classified =>
    LET hasPattern == patternMatches(args.a)
        k == Cardinality(matchedKeywords(args.a))
    IN  /\ (~hasPattern /\ k = 0) =>
             /\ returned.value.confidence = BaseNotQuestionLike
             /\ ~returned.value.isTechnical
        /\ returned.value.isTechnical <=> ((hasPattern /\ k >= 1) \/ k >= 3)

C28_Witness ==
  /\ classified
  /\ args.a = TextWeather
  /\ returned.value.confidence = 20
  /\ ~returned.value.isTechnical

compared == returned.fn = "calculateSimilarity"

\* a similarity of 1.0
isOne(sim) == sim.den > 0 /\ sim.num = sim.den

\* C29: the similarity of a string with itself is 1.0, the empty string
\* included, and so is the similarity of two strings that differ only in the
\* case of their letters.
C29_SimilarityOfEqualIsOne ==
  (compared /\ toLowerCase(args.a) = toLowerCase(args.b)) => isOne(returned.value)

C29_Witness ==
  /\ compared
  /\ args.a = TextCssCaps
  /\ args.b = TextCss
  /\ isOne(returned.value)

\* C30: the similarity of a and b is the similarity of b and a, and so is
\* whether it is above the duplicate threshold.
C30_SimilaritySymmetric ==
  compared =>
    WithValue(calculateSimilarity(args.b, args.a), LAMBDA swapped :
      /\ returned.value.num * swapped.den = swapped.num * returned.value.den
      /\ aboveThreshold(returned.value) <=> aboveThreshold(swapped))

C30_Witness ==
  /\ compared
  /\ args.a = TextMutexQ
  /\ args.b = TextMutex
  /\ returned.value = [num |-> 20, den |-> 21]
  /\ aboveThreshold(returned.value)

(***************************************************************************)
(* The standard (non-streaming) path, capture errors, the answer surface.  *)
(***************************************************************************)
\* the answer documented for a chat completion: the content of its first
\* choice, or the sentinel when there is none or it is absent or empty
documentedAnswer(choices) ==
  LET hasContent == /\ Len(choices) >= 1
                    /\ "content" \in DOMAIN choices[1].message
                    /\ Len(choices[1].message.content) > 0
  IN  IF hasContent THEN choices[1].message.content ELSE NoAnswerReceived

\* C31: when fetch resolves with an OK response for a request made with
\* stream = false, the request is completed at once, its answer is the content
\* of the first choice or "No answer received", and nothing is notified.
C31_StandardCompletes ==
  [][\A r \in DOMAIN requests : \A resp \in Responses(FALSE) :
       (FetchResolved(r, resp) /\ resp.ok /\ ~requests[r].stream) =>
         /\ requests'[r].phase = "completed"
         /\ requests'[r].answer = documentedAnswer(resp.choices)
         /\ requests'[r].notifications = <<>>
         /\ requests'[r].reads = 0]_vars

C31_Witness ==
  \E r \in DOMAIN requests :
    /\ ~requests[r].stream
    /\ requests[r].phase = "completed"
    /\ requests[r].answer = NoAnswerReceived
    /\ requests[r].notifications = <<>>

\* C32: every error event of the capture engine, whatever its code, leaves an
\* error message set and the listening state off, which is the state in which
\* startListening can be called again.
C32_ErrorResetsListening ==
  [][\A code \in RecognitionErrorCodes :
       RecognitionError(code) => (error' # <<>> /\ ~isListening')]_vars

\* an error with a code outside the four named ones has been handled
C32_Witness ==
  /\ error = <<"Recognition error: ", "aborted">>
  /\ ~isListening
  /\ recognition = "ending"

\* the getAnswer calls made from the answer surface in NextSurface
MaxAnswerCalls == 2

\* AnswerDisplay across unmounting and mounting again: questions arrive, are
\* selected and cleared, answers are requested and their streams read
NextSurface ==
  \/ \E e \in AnswerEvents : HandleRecognitionResult(e)
  \/ \E index \in 0..MaxSegments : SelectQuestion(index)
  \/ ClearQuestions
  \/ StartListening
  \/ StopListening
  \/ \E key \in AnswerKeys \ {<<>>} : SetApiKey(key)
  \/ GetAnswerUpTo(MaxAnswerCalls)
  \/ \E r \in DOMAIN requests : \E resp \in AnswerResponses : FetchResolved(r, resp)
  \/ \E r \in DOMAIN requests : \E n \in answerChunks(requests[r]) : ReadChunk(r, n)
  \/ \E r \in DOMAIN requests : ReadDone(r)

SpecSurface == Init /\ [][NextSurface]_vars

\* the requests whose callbacks update the mounted AnswerDisplay and that
\* have no outcome yet
liveRequests(reqs) == {r \in DOMAIN reqs : liveAndPending(reqs[r])}

\* C33: at most one request at a time is under way for the mounted answer
\* display: getAnswer starts a request only when no request of the display is
\* pending, so the partial answers shown come from one request.
C33_OneLiveRequest ==
  [][/\ Len(requests') > Len(requests) => liveRequests(requests) = {}
     /\ Cardinality(liveRequests(requests')) <= 1]_vars

\* a request was started on a display mounted anew while the request of the
\* display before it is still under way
C33_Witness ==
  /\ Len(requests) = 2
  /\ ~terminal(requests[1])
  /\ ~requests[1].live
  /\ liveAndPending(requests[2])
  /\ answerDisplay.isLoading

\* C34: when fetch resolves with an OK response for a request made with
\* stream = true, its body is read as an event stream, with or without a
\* callback for the partial answers.
C34_StreamAlwaysRead ==
  [][\A r \in DOMAIN requests : \A resp \in Responses(TRUE) :
       (FetchResolved(r, resp) /\ resp.ok /\ requests[r].stream) =>
         /\ requests'[r].phase = "reading"
         /\ requests'[r].rest = resp.body]_vars

(***************************************************************************)
(* Question extraction and the texts analysed, as documented.              *)
(***************************************************************************)
extracted == returned.fn = "extractQuestions"

\* the sentences of a text that are long enough and not followed by '?'
plainSentences(text) ==
  WithValue(split(text, SentenceTerminators), LAMBDA pieces :
    {trim(pieces[k]) : k \in {j \in 1..Len(pieces) :
       /\ Len(trim(pieces[j])) >= MinSentenceLength
       /\ ~includes(text, trim(pieces[j]) \o <<"?">>)}})

\* a starter stands in the sentence as a word or phrase of its own (at the
\* start, inside or at the end)
standaloneStarter(sentence) ==
  \E k \in 1..Len(questionIndicators) :
    keywordRegexTest(questionIndicators[k], sentence)

\* C35: a sentence not followed by '?' is among the candidates exactly when a
\* starter stands in it as a word or phrase of its own, at its start, inside
\* it or as its last word; a word that only begins with the letters of a
\* starter does not count.  (Stated where the candidates are not the fallback
\* of the whole text.)
C35_StandaloneStarters ==
  (extracted /\ returned.value # <<trim(args.a)>>) =>
    \A sentence \in plainSentences(args.a) :
      inSeq(returned.value, sentence) <=> standaloneStarter(sentence)

\* no sentence of the text gives a candidate in the loop of extractQuestions
noSentenceQualifies(text) ==
  WithValue(split(text, SentenceTerminators), LAMBDA pieces :
    \A k \in 1..Len(pieces) :
      Len(trim(pieces[k])) > 0 => sentenceCandidate(text, pieces[k]) = <<>>)

\* C36: when no sentence qualifies and the trimmed text is not empty and
\* shorter than 150 characters, the candidates are the trimmed text alone;
\* there is no candidate only for a blank text, or for a text of 150
\* characters or more without a qualifying sentence.
C36_FallbackWholeText ==
  extracted =>
    WithValue(trim(args.a), LAMBDA trimmedText :
    WithValue(noSentenceQualifies(args.a), LAMBDA none :
      /\ (none /\ Len(trimmedText) > 0 /\ Len(trimmedText) < FallbackMaxLength)
           => returned.value = <<trimmedText>>
      /\ returned.value = <<>>
           <=> (none /\ (Len(trimmedText) = 0 \/ Len(trimmedText) >= FallbackMaxLength))))

C36_Witness ==
  /\ extracted
  /\ args.a = TextBelowFallback
  /\ returned.value = <<TextBelowFallback>>

\* the texts documented as passed to the classifier for a segment
documentedTexts(segment) ==
  WithValue(extractQuestions(segment), LAMBDA candidates :
    IF candidates # <<>>
    THEN SelectSeq(candidates, LAMBDA c : Len(c) > MinQuestionLength)
    ELSE IF Len(segment) > MinQuestionLength /\ mightBeConversationalQuery(segment)
         THEN <<segment>>
         ELSE <<>>)

\* C37: the texts analysed for a segment are its extracted candidates longer
\* than 5 characters or, when there is no candidate, the segment itself if it
\* is longer than 5 characters and looks conversational; no text of 5
\* characters or fewer is analysed.
C37_TextsAnalysed ==
  returned.fn = "textsToAnalyze" =>
    /\ returned.value = documentedTexts(args.a)
    /\ \A k \in 1..Len(returned.value) : Len(returned.value[k]) > 5

\* a candidate of four characters was dropped and the one behind it kept
C37_Witness ==
  /\ returned.fn = "textsToAnalyze"
  /\ args.a = TextWhyCss
  /\ Len(extractQuestions(args.a)) = 2
  /\ Len(returned.value) = 1

\* C38: without a recognition engine, when a startListening attempt has run
\* to completion (at once for the microphone, when the capture request
\* settles for system audio), listening is off and an error message is set.
C38_NoEngineNoListening ==
  [][/\ (StartListening /\ recognition = "absent" /\ source = "microphone")
          => (~isListening' /\ error' # <<>>)
     /\ \A outcome \in CaptureOutcomes :
          (SystemCaptureSettled(outcome) /\ recognition = "absent" /\ isListening)
            => (~isListening' /\ error' # <<>>)]_vars

(***************************************************************************)
(* Interim results, and re-delivery after clearTranscript.                 *)
(***************************************************************************)
\* the results of the event from resultIndex on are all interim
onlyInterim(e) ==
  \A k \in 1..Len(e.results) : k > e.resultIndex => ~e.results[k].isFinal

\* C39: a recognition event whose results are all interim changes the interim
\* transcript only: the transcript, the processed segments, the registry and
\* the selected index stay as they are.
C39_InterimOnly ==
  [][\A e \in Events :
       (HandleRecognitionResult(e) /\ onlyInterim(e)) =>
         /\ interimTranscript' = interimOf(e)
         /\ transcript' = transcript
         /\ processedSegments' = processedSegments
         /\ detectedQuestions' = detectedQuestions
         /\ currentQuestionIndex' = currentQuestionIndex]_vars

\* interim text arrived behind a final fragment that gave a question
C39_Witness ==
  /\ interimTranscript = TextWhatIs
  /\ transcript # <<>>
  /\ Len(processedSegments) > 0
  /\ Len(detectedQuestions) > 0

\* every text of the fragment that the detector takes for a technical question
\* has its entry in the registry
entriesProduced(fragment) ==
  WithValue(toAnalyzeOf(fragment), LAMBDA texts :
    /\ \E k \in 1..Len(texts) : detectionOf(texts[k]).isTechnical
    /\ \A k \in 1..Len(texts) :
         detectionOf(texts[k]).isTechnical =>
           \E q \in 1..Len(detectedQuestions) : detectedQuestions[q].text = trim(texts[k]))

\* C40: when a final fragment whose questions are in the registry is
\* delivered again after the processed segments were cleared, it is recorded
\* as a new segment, and the registry and the selected index stay as they are.
C40_RedeliveryAfterClear ==
  [][\A e \in Events :
       (/\ HandleRecognitionResult(e)
        /\ finalOf(e) # <<>>
        /\ processedSegments = <<>>
        /\ entriesProduced(finalOf(e))) =>
         /\ processedSegments' = <<[text |-> finalOf(e), timestamp |-> now]>>
         /\ detectedQuestions' = detectedQuestions
         /\ currentQuestionIndex' = currentQuestionIndex]_vars

\* the only segment is younger than the questions of its fragment: it was
\* delivered again after clearTranscript, and the first of its questions,
\* selected before, is still selected
C40_Witness ==
  /\ processedSegments = <<[text |-> TextCssDns, timestamp |-> 1]>>
  /\ transcript = TextCssDns
  /\ Len(detectedQuestions) = 2
  /\ detectedQuestions[1].id = numberToString(0)
  /\ detectedQuestions[2].id = numberToString(0)
  /\ currentQuestionIndex = 0

=============================================================================
